---------------------------- MODULE Spec2Model ----------------------------
(***************************************************************************)
(* A model of the chart and report scripts of Giftedx/chatterbot.          *)
(*                                                                         *)
(* Every script is a straight-line program over a dataset literal.  One    *)
(* behaviour of the model is one run of one script: `script' names it,     *)
(* `pc' is the statement the run has reached and `err' the exception that  *)
(* ended it, if any.  The dataset literal of a script is its only input;   *)
(* Init draws it from a bounded family that holds the literal of the       *)
(* source and neighbours of it (a prefix of its records, followed by a few *)
(* further records).  A statement about the script as written is stated    *)
(* for the literal of the source.                                          *)
(*                                                                         *)
(* Python strings are TLA+ strings (Len, SubSeq and \o act on them);       *)
(* Python lists are sequences, dicts are functions on their keys.          *)
(***************************************************************************)
EXTENDS Integers, Sequences, FiniteSets, TLC

VARIABLES
  script,       \* the script that runs
  pc,           \* the statement reached
  err,          \* "none", or the exception that ended the run
  i,            \* the index of the running for loop
  j,            \* the index of the running inner for loop
  data,         \* the dataset literal of the script (data, mcp_servers_data)
  lit,          \* history: the dataset literal as it was constructed
  input_types,  \* chart_script (2).py: input_types
  labels,       \* chart_script (2).py: labels
  sources,      \* chart_script (2).py: sources
  targets,      \* chart_script (2).py: targets
  values,       \* chart_script (2).py: values
  node_colors,  \* chart_script (2).py: node_colors
  chart_data,   \* chart_script (3).py: chart_data
  colors,       \* chart_script.py: colors
  all_servers,  \* docs/brainstorming_MCP/script.py: all_servers
  out,          \* the lines printed on standard output, in order
  df,           \* the DataFrame: [columns, index, rows], or NoFrame
  cuts,         \* history: every truncation applied: [site, limit, input, output]
  fig,          \* the figure: [data |-> traces, layout |-> layout], or NoFig
  rendered,     \* the traces handed to the plotting library, in order
  files,        \* the names of the files written, in order
  csv,          \* the CSV files written: [name, lines], in order
  df2,          \* the second DataFrame (features_df, summary_df), or NoFrame
  prev          \* the run made before this one in the working directory, or NoRun

vars == <<script, pc, err, i, j, data, lit, input_types, labels, sources,
          targets, values, node_colors, chart_data, colors, all_servers, out,
          df, cuts, fig, rendered, files, csv, df2, prev>>

\* no run has been made in the working directory
NoRun == [script |-> "none", out |-> <<>>, files |-> <<>>, err |-> "none"]

sankeyVars == <<input_types, labels, sources, targets, values, node_colors>>

\* what the Sankey script never touches
sankeyFrame ==
  <<j, data, lit, chart_data, colors, all_servers, out, df, cuts, csv, df2>>

\* what the scripts over a list of records never touch
tableFrame == <<j, lit, sankeyVars, all_servers, out, csv, df2>>

\* what the chart scripts that keep no colour list never touch
chartFrame == <<tableFrame, colors>>

(***************************************************************************)
(* Bounds of the model.                                                    *)
(***************************************************************************)
\* how many input types the script does not know may follow the known ones
MaxUnknown == 1

\* how many further records may follow the records of a dataset literal
MaxExtra == 1

(***************************************************************************)
(* Python helpers.                                                         *)
(***************************************************************************)
Min(a, b) == IF a <= b THEN a ELSE b

\* range(n), as the sequence 0, .., n-1
Range(n) == [k \in 1..n |-> k - 1]

\* x[:n] for n >= 0
Prefix(x, n) == SubSeq(x, 1, Min(n, Len(x)))

NoFig == [data |-> <<>>, layout |-> <<>>]

NoFrame == [columns |-> <<>>, index |-> <<>>, rows |-> <<>>]

SetMin(S) == CHOOSE k \in S : \A m \in S : k <= m
SetMax(S) == CHOOSE k \in S : \A m \in S : k >= m

\* the character of s at position p (1-based), as a string of length 1
CharAt(s, p) == SubSeq(s, p, p)

\* s[p-1:] starts with pat
OccursAt(s, pat, p) ==
  /\ p + Len(pat) - 1 <= Len(s)
  /\ SubSeq(s, p, p + Len(pat) - 1) = pat

\* str.replace(old, new) for a non-empty old: the leftmost occurrences,
\* not overlapping, are replaced
RECURSIVE ReplaceFrom(_, _, _, _)
ReplaceFrom(s, old, new, p) ==
  IF p > Len(s) THEN ""
  ELSE IF OccursAt(s, old, p)
         THEN new \o ReplaceFrom(s, old, new, p + Len(old))
         ELSE CharAt(s, p) \o ReplaceFrom(s, old, new, p + 1)

Replace(s, old, new) == ReplaceFrom(s, old, new, 1)

WhiteSpace == {" ", "\t", "\n", "\r", "\f"}

\* str.strip()
Strip(s) ==
  LET keep == {k \in 1..Len(s) : CharAt(s, k) \notin WhiteSpace}
  IN  IF keep = {} THEN "" ELSE SubSeq(s, SetMin(keep), SetMax(keep))

\* str.split(sep) for a non-empty sep; start is where the running part began
RECURSIVE SplitFrom(_, _, _, _)
SplitFrom(s, sep, p, start) ==
  IF p > Len(s) THEN << SubSeq(s, start, Len(s)) >>
  ELSE IF OccursAt(s, sep, p)
         THEN << SubSeq(s, start, p - 1) >>
                \o SplitFrom(s, sep, p + Len(sep), p + Len(sep))
         ELSE SplitFrom(s, sep, p + 1, start)

Split(s, sep) == SplitFrom(s, sep, 1, 1)

\* sep.join(list)
RECURSIVE Join(_, _)
Join(sep, list) ==
  IF list = <<>> THEN ""
  ELSE IF Len(list) = 1 THEN list[1]
  ELSE list[1] \o sep \o Join(sep, Tail(list))

Digits == "0123456789"

IsDigit(c) == \E d \in 1..10 : CharAt(Digits, d) = c

DigitValue(c) == (CHOOSE d \in 1..10 : CharAt(Digits, d) = c) - 1

\* the digits of an int() argument after its sign: digits, with single
\* underscores allowed between them
IsDigitString(s) ==
  /\ Len(s) > 0
  /\ IsDigit(CharAt(s, 1)) /\ IsDigit(CharAt(s, Len(s)))
  /\ \A k \in 1..Len(s) : IsDigit(CharAt(s, k)) \/ CharAt(s, k) = "_"
  /\ \A k \in 1..(Len(s) - 1) : ~(CharAt(s, k) = "_" /\ CharAt(s, k + 1) = "_")

RECURSIVE DigitsValue(_, _)
DigitsValue(s, acc) ==
  IF s = "" THEN acc
  ELSE IF CharAt(s, 1) = "_" THEN DigitsValue(SubSeq(s, 2, Len(s)), acc)
  ELSE DigitsValue(SubSeq(s, 2, Len(s)), 10 * acc + DigitValue(CharAt(s, 1)))

HasSign(s) == Len(s) > 0 /\ CharAt(s, 1) \in {"+", "-"}

Unsigned(s) == IF HasSign(s) THEN SubSeq(s, 2, Len(s)) ELSE s

\* int(s) succeeds (otherwise it raises ValueError)
IsInt(s) == IsDigitString(Unsigned(Strip(s)))

\* int(s), where it succeeds
IntOf(s) ==
  LET t == Strip(s)
      v == DigitsValue(Unsigned(t), 0)
  IN  IF HasSign(t) /\ CharAt(t, 1) = "-" THEN 0 - v ELSE v

(***************************************************************************)
(* archive/chart_script (2).py: the Sankey diagram.                        *)
(***************************************************************************)
SankeyColors == <<"#1FB8CD", "#FFC185", "#ECEBD5", "#5D878F", "#D2BA4C">>

InputTypes == <<"Text", "Images", "Audio", "Video", "Documents">>

\* the number of positions per stage that the loops over range(5) walk
SankeyItems == 5

\* the lists input_types is drawn from: a prefix of the literal, followed by
\* input types the if/elif chains do not name
InputTypeLists ==
  { SubSeq(InputTypes, 1, n) \o [k \in 1..m |-> "Code"] :
      n \in 0..Len(InputTypes), m \in 0..MaxUnknown }

InputLabel(input_type) == input_type \o " Input"

\* the if/elif chain of the processing loop: the labels it appends
ProcessLabel(input_type) ==
  CASE input_type = "Text"      -> <<"NLP Process">>
    [] input_type = "Images"    -> <<"Vision Process">>
    [] input_type = "Audio"     -> <<"Audio Process">>
    [] input_type = "Video"     -> <<"Video Process">>
    [] input_type = "Documents" -> <<"Doc Process">>
    [] OTHER                    -> <<>>

\* the if/elif chain of the output loop: the labels it appends
OutputLabel(input_type) ==
  CASE input_type = "Text"      -> <<"Smart Chat">>
    [] input_type = "Images"    -> <<"Visual Bot">>
    [] input_type = "Audio"     -> <<"Voice Bot">>
    [] input_type = "Video"     -> <<"Media Bot">>
    [] input_type = "Documents" -> <<"Study Bot">>
    [] OTHER                    -> <<>>

\* one pass of the 'Create connections' loop: the (source, target, value)
\* triples it appends, in order
ConnectionsWrongStage(k) ==
  << [source |-> k, target |-> k + SankeyItems, value |-> 10],
     [source |-> k + SankeyItems, target |-> k + 2 * SankeyItems + 1, value |-> 10] >>

ConnectionsCrossed(k) ==
  << [source |-> k, target |-> ((k + 1) % SankeyItems) + SankeyItems, value |-> 10],
     [source |-> k + SankeyItems, target |-> k + 2 * SankeyItems, value |-> 10] >>

Connections(k) ==
  << [source |-> k, target |-> k + 5, value |-> 10],
     [source |-> k + 5, target |-> k + 10, value |-> 10] >>

\* the link colour of the list comprehension of go.Sankey(link=dict(color=..))
LinkColor(k) ==
  IF k < 5 THEN "rgba(31, 184, 205, 0.2)"
  ELSE IF k < 10 THEN "rgba(255, 193, 133, 0.2)"
  ELSE IF k < 15 THEN "rgba(236, 235, 213, 0.2)"
  ELSE IF k < 20 THEN "rgba(93, 135, 143, 0.2)"
  ELSE "rgba(210, 186, 76, 0.2)"

SankeyTrace ==
  [ type |-> "sankey",
    node |-> [label |-> labels, color |-> node_colors],
    link |-> [source |-> sources, target |-> targets, value |-> values,
              color |-> [k \in 1..Len(sources) |-> LinkColor(k - 1)]] ]

\* data (lines 6-30)
SankeyData ==
  ("multimodal_flow" :> ("inputs" :> ("Text" :> <<"Natural language queries", "Commands", "Conversations">> @@
        "Images" :> <<"Screenshots", "Photos", "Artwork", "Diagrams">> @@
        "Audio" :> <<"Voice messages", "Speech commands", "Music files">> @@
        "Video" :> <<"Tutorials", "Recordings", "Streams">> @@
        "Documents" :> <<"PDFs", "Reports", "Textbooks", "Manuals">>) @@
      "processing" :> ("Text" :> <<"Context understanding", "Intent recognition", "Conversation flow">> @@
        "Images" :> <<"Object detection", "OCR", "Visual analysis", "Content moderation">> @@
        "Audio" :> <<"Speech-to-text", "Audio analysis", "Voice recognition">> @@
        "Video" :> <<"Scene understanding", "Timestamp analysis", "Content extraction">> @@
        "Documents" :> <<"Text extraction", "Table parsing", "Layout understanding">>) @@
      "outputs" :> ("Text" :> <<"Contextual responses", "Follow-up questions", "Threaded conversations">> @@
        "Images" :> <<"Detailed descriptions", "Analysis reports", "Safety assessments">> @@
        "Audio" :> <<"Transcriptions", "Voice responses", "Real-time interaction">> @@
        "Video" :> <<"Summaries", "Key moments", "Visual insights">> @@
        "Documents" :> <<"Q&A sessions", "Fact extraction", "Study assistance">>)))

SankeyInit ==
  /\ script = "sankey"
  /\ pc = "input_labels"
  /\ input_types \in InputTypeLists
  /\ data = SankeyData

\* for i, input_type in enumerate(input_types): labels.append(f"{input_type} Input")
SankeyInputLabels ==
  /\ script = "sankey" /\ pc = "input_labels"
  /\ IF i < Len(input_types)
       THEN /\ labels' = Append(labels, InputLabel(input_types[i + 1]))
            /\ i' = i + 1
            /\ pc' = pc
       ELSE /\ labels' = labels
            /\ i' = 0
            /\ pc' = "process_labels"
  /\ UNCHANGED <<script, prev, err, input_types, sources, targets, values,
                 node_colors, fig, rendered, files, sankeyFrame>>

\* the 'Create labels for processing' loop
SankeyProcessLabels ==
  /\ script = "sankey" /\ pc = "process_labels"
  /\ IF i < Len(input_types)
       THEN /\ labels' = labels \o ProcessLabel(input_types[i + 1])
            /\ i' = i + 1
            /\ pc' = pc
       ELSE /\ labels' = labels
            /\ i' = 0
            /\ pc' = "output_labels"
  /\ UNCHANGED <<script, prev, err, input_types, sources, targets, values,
                 node_colors, fig, rendered, files, sankeyFrame>>

\* the 'Create labels for outputs' loop
SankeyOutputLabels ==
  /\ script = "sankey" /\ pc = "output_labels"
  /\ IF i < Len(input_types)
       THEN /\ labels' = labels \o OutputLabel(input_types[i + 1])
            /\ i' = i + 1
            /\ pc' = pc
       ELSE /\ labels' = labels
            /\ i' = 0
            /\ pc' = "connections"
  /\ UNCHANGED <<script, prev, err, input_types, sources, targets, values,
                 node_colors, fig, rendered, files, sankeyFrame>>

\* the 'Create connections' loop: for i in range(5)
SankeyConnections ==
  /\ script = "sankey" /\ pc = "connections"
  /\ IF i < SankeyItems
       THEN /\ sources' = sources \o [k \in 1..2 |-> Connections(i)[k].source]
            /\ targets' = targets \o [k \in 1..2 |-> Connections(i)[k].target]
            /\ values' = values \o [k \in 1..2 |-> Connections(i)[k].value]
            /\ i' = i + 1
            /\ pc' = pc
       ELSE /\ UNCHANGED <<sources, targets, values>>
            /\ i' = 0
            /\ pc' = "node_colors_1"
  /\ UNCHANGED <<script, prev, err, input_types, labels, node_colors, fig,
                 rendered, files, sankeyFrame>>

\* the three 'Create node colors' loops: for i in range(5): colors[i]
SankeyNodeColors ==
  /\ script = "sankey"
  /\ pc \in {"node_colors_1", "node_colors_2", "node_colors_3"}
  /\ IF i < SankeyItems
       THEN /\ node_colors' = Append(node_colors, SankeyColors[i + 1])
            /\ i' = i + 1
            /\ pc' = pc
       ELSE /\ node_colors' = node_colors
            /\ i' = 0
            /\ pc' = CASE pc = "node_colors_1" -> "node_colors_2"
                       [] pc = "node_colors_2" -> "node_colors_3"
                       [] pc = "node_colors_3" -> "figure"
  /\ UNCHANGED <<script, prev, err, input_types, labels, sources, targets, values,
                 fig, rendered, files, sankeyFrame>>

\* fig = go.Figure(data=[go.Sankey(node=.., link=..)])
SankeyFigure ==
  /\ script = "sankey" /\ pc = "figure"
  /\ fig' = [data |-> <<SankeyTrace>>, layout |-> <<>>]
  /\ rendered' = Append(rendered, SankeyTrace)
  /\ pc' = "layout"
  /\ UNCHANGED <<script, prev, err, i, sankeyVars, files, sankeyFrame>>

\* fig.update_layout(title=.., font_size=12)
SankeyLayout ==
  /\ script = "sankey" /\ pc = "layout"
  /\ fig' = [fig EXCEPT !.layout =
               <<"Gemini API Multimodal Discord Bot Flow", 12>>]
  /\ pc' = "write"
  /\ UNCHANGED <<script, prev, err, i, sankeyVars, rendered, files, sankeyFrame>>

\* fig.write_image("multimodal_flow_chart.png")
SankeyWrite ==
  /\ script = "sankey" /\ pc = "write"
  /\ files' = Append(files, "multimodal_flow_chart.png")
  /\ pc' = "done"
  /\ UNCHANGED <<script, prev, err, i, sankeyVars, fig, rendered, sankeyFrame>>

(***************************************************************************)
(* Claims about the Sankey diagram.                                        *)
(***************************************************************************)
SankeyAsWritten == script = "sankey" /\ input_types = InputTypes

\* the label loops and the connection loop have finished
SankeyLoopsDone ==
  pc \in {"node_colors_1", "node_colors_2", "node_colors_3", "figure",
          "layout", "write", "done"}

\* C1: in the script as written, once the label loops and the connection
\* loop have finished there are exactly 15 node labels and exactly 10 links
\* (10 sources, 10 targets, 10 values), and every source and target index
\* lies in [0, 15): no link refers to a node that does not exist.
C1_SankeyCounts ==
  (SankeyAsWritten /\ SankeyLoopsDone) =>
     /\ Len(labels) = 15
     /\ Len(sources) = 10 /\ Len(targets) = 10 /\ Len(values) = 10
     /\ \A k \in 1..10 : sources[k] \in 0..14 /\ targets[k] \in 0..14

C1_Witness ==
  SankeyAsWritten /\ pc = "done" /\ Len(sources) = 10 /\ Len(labels) = 15

\* the label the claim expects for input type t at stage s (0, 1, 2)
ExpectedStageLabel(t, s) ==
  CASE s = 0 -> t \o " Input"
    [] s = 1 -> (CASE t = "Text" -> "NLP Process"
                   [] t = "Images" -> "Vision Process"
                   [] t = "Audio" -> "Audio Process"
                   [] t = "Video" -> "Video Process"
                   [] t = "Documents" -> "Doc Process")
    [] s = 2 -> (CASE t = "Text" -> "Smart Chat"
                   [] t = "Images" -> "Visual Bot"
                   [] t = "Audio" -> "Voice Bot"
                   [] t = "Video" -> "Media Bot"
                   [] t = "Documents" -> "Study Bot")

SankeyLinks == { <<sources[k], targets[k]>> : k \in 1..Len(sources) }

\* C2: in the script as written the node labels are the three stage lists
\* concatenated in stage order, each in the order Text, Images, Audio, Video,
\* Documents; the links are exactly the pairs (i + 5s, i + 5(s+1)) for
\* i in 0..4 and s in 0..1, none of them twice, each with the value 10.
C2_SankeyPositional ==
  (SankeyAsWritten /\ SankeyLoopsDone) =>
     /\ Len(labels) = 15
     /\ \A s \in 0..2 : \A k \in 0..4 :
          labels[k + 5 * s + 1] =
            ExpectedStageLabel(<<"Text", "Images", "Audio", "Video", "Documents">>[k + 1], s)
     /\ Len(sources) = Len(targets) /\ Len(values) = Len(sources)
     /\ SankeyLinks = { <<k + 5 * s, k + 5 * (s + 1)>> : k \in 0..4, s \in 0..1 }
     /\ Cardinality(SankeyLinks) = Len(sources)
     /\ \A k \in 1..Len(values) : values[k] = 10

C2_Witness ==
  /\ SankeyAsWritten /\ pc = "figure"
  /\ <<4, 9>> \in SankeyLinks /\ <<9, 14>> \in SankeyLinks
  /\ labels[15] = "Study Bot"

\* the number of labels each stage contributes for the input types given
SankeyStageCounts ==
  << Len(input_types),
     Cardinality({k \in 1..Len(input_types) : ProcessLabel(input_types[k]) # <<>>}),
     Cardinality({k \in 1..Len(input_types) : OutputLabel(input_types[k]) # <<>>}) >>

\* C3: a Sankey trace reaches the plotting library only if all stages have
\* the same number of items and every link index is a position of the
\* node-label sequence; otherwise the assembly has failed before.
C3_SankeyFailFast ==
  \A r \in 1..Len(rendered) :
    rendered[r].type = "sankey" =>
      /\ SankeyStageCounts[1] = SankeyStageCounts[2]
      /\ SankeyStageCounts[2] = SankeyStageCounts[3]
      /\ \A k \in 1..Len(rendered[r].link.source) :
           /\ rendered[r].link.source[k] \in 0..(Len(rendered[r].node.label) - 1)
           /\ rendered[r].link.target[k] \in 0..(Len(rendered[r].node.label) - 1)

\* str(n) for n >= 0
RECURSIVE ToStr(_)
ToStr(n) ==
  IF n < 10 THEN CharAt(Digits, n + 1)
  ELSE ToStr(n \div 10) \o CharAt(Digits, (n % 10) + 1)

(***************************************************************************)
(* The truncations of the chart scripts.                                   *)
(***************************************************************************)
\* x[:n] if len(x) > n else x
CutPlain(x, n) == IF Len(x) > n THEN Prefix(x, n) ELSE x

\* x[:n] + '...' if len(x) > n else x
CutEllipsis(x, n) == IF Len(x) > n THEN Prefix(x, n) \o "..." ELSE x

\* f"{x[:n]}...": the marker follows whatever the slice kept
CutAlways(x, n) == Prefix(x, n) \o "..."

\* the record `cuts' keeps of one truncation
Cut(site, limit, input, output) ==
  [site |-> site, limit |-> limit, input |-> input, output |-> output]

\* a float that is the quotient of two integers, kept exact
Quotient(num, den) == [num |-> num, den |-> den]

\* pd.DataFrame(records) for records that all have the keys `columns', in
\* that order; no record gives a frame without columns
DataFrame(records, columns) ==
  [ columns |-> IF records = <<>> THEN <<>> ELSE columns,
    index   |-> Range(Len(records)),
    rows    |-> records ]

HasColumn(frame, c) == \E k \in 1..Len(frame.columns) : frame.columns[k] = c

\* df[c], as the list of its values
Column(frame, c) == [k \in 1..Len(frame.rows) |-> frame.rows[k][c]]

\* pat occurs in s
Contains(s, pat) == \E p \in 1..Len(s) : OccursAt(s, pat, p)

\* a field written as it is, whatever it holds
CsvFieldBare(x) == x

\* one field of a CSV line: quoted, with its quotes doubled, when it holds
\* a comma, a quote or a line break (csv.QUOTE_MINIMAL)
CsvField(x) ==
  IF Contains(x, ",") \/ Contains(x, "\"") \/ Contains(x, "\n") \/ Contains(x, "\r")
    THEN "\"" \o Replace(x, "\"", "\"\"") \o "\""
    ELSE x

CsvLine(fields) == Join(",", [k \in 1..Len(fields) |-> CsvField(fields[k])])

\* str(v) of the cell of row k in column c; ints names the columns of ints
CellText(frame, k, c, ints) ==
  IF c \in ints THEN ToStr(frame.rows[k][c]) ELSE frame.rows[k][c]

\* df.to_csv(name, index=False): the header line and one line per row
ToCsv(frame, ints) ==
  << CsvLine(frame.columns) >>
    \o [k \in 1..Len(frame.rows) |->
          CsvLine([c \in 1..Len(frame.columns) |->
                     CellText(frame, k, frame.columns[c], ints)])]

(***************************************************************************)
(* archive/chart_script (3).py: the user-group bar chart.                  *)
(***************************************************************************)
\* data  (archive/chart_script (3).py, lines 7-36)
GroupsData ==
  <<
    ("user_group" :> "Gaming Communities" @@
      "demographics" :> "Ages 16-34, 50-5000 members" @@
      "priority_features" :> <<"Real-time responses", "Tournament management", "XP/Leaderboards", "Voice integration", "Clan systems">> @@
      "interaction_style" :> "Fast-paced, competitive, casual language" @@
      "ai_capabilities" :> <<"Game stats analysis", "Strategy suggestions", "Event scheduling", "Automated moderation">>),
    ("user_group" :> "Educational Groups" @@
      "demographics" :> "Ages 16-25, 20-500 members" @@
      "priority_features" :> <<"Study session management", "Quiz systems", "Progress tracking", "Resource sharing", "Collaboration tools">> @@
      "interaction_style" :> "Structured, formal, supportive" @@
      "ai_capabilities" :> <<"Homework help", "Study planning", "Academic research", "Learning analytics">>),
    ("user_group" :> "Content Creators" @@
      "demographics" :> "Ages 18-35, 100-10000 members" @@
      "priority_features" :> <<"Engagement tracking", "Content promotion", "Analytics", "Community building", "Feedback systems">> @@
      "interaction_style" :> "Brand-focused, engaging, promotional" @@
      "ai_capabilities" :> <<"Content optimization", "Audience insights", "Growth strategies", "Creative assistance">>),
    ("user_group" :> "Professional Communities" @@
      "demographics" :> "Ages 25-45, 50-1000 members" @@
      "priority_features" :> <<"Professional communication", "Compliance tools", "Productivity features", "Integration", "Security">> @@
      "interaction_style" :> "Formal, business-focused, efficient" @@
      "ai_capabilities" :> <<"Meeting summaries", "Task management", "Knowledge base", "Professional networking">>) >>

\* the demographics text "Ages L-H, A-B members", or the same without "Ages "
Demographics(prefix, r) ==
  prefix \o ToStr(r[1]) \o "-" \o ToStr(r[2]) \o ", "
         \o ToStr(r[3]) \o "-" \o ToStr(r[4]) \o " members"

\* the <<L, H, A, B>> of the demographics texts of the literal, and further ones
DemographicsRanges ==
  { <<16, 34, 50, 5000>>, <<16, 25, 20, 500>>, <<18, 35, 100, 10000>>,
    <<25, 45, 50, 1000>>, <<18, 40, 10, 200>>, <<21, 30, 5, 15>>,
    <<0, 0, 1, 1>>, <<7, 120, 3, 4>> }

DemographicsPrefixes == {"Ages ", ""}

WellFormedDemographics ==
  { Demographics(p, r) : p \in DemographicsPrefixes,
      r \in { <<16, 34, 50, 5000>>, <<0, 0, 1, 1>>, <<7, 120, 3, 4>> } }

\* demographics texts whose age part or member part is not two integers
\* separated by one hyphen
MalformedDemographics ==
  { "Ages 16, 50-5000 members",          \* age part: no hyphen
    "Ages 16-34-40, 50-5000 members",    \* age part: more than one hyphen
    "Ages sixteen-34, 50-5000 members",  \* age part: a non-numeric token
    "Ages 16-34",                        \* no comma-separated second part
    "Ages 16-34, 50 members",            \* member part: no hyphen
    "Ages 16-34, 50-100-5000 members",   \* member part: more than one hyphen
    "Ages 16-34, 50-many members" }      \* member part: a non-numeric token

\* a user group with the demographics text d
SampleGroup(d) ==
  ("user_group" :> "Study Groups" @@
   "demographics" :> d @@
   "priority_features" :> <<"Shared notes">> @@
   "interaction_style" :> "Focused" @@
   "ai_capabilities" :> <<"Quiz generation">>)

\* further user groups a dataset may hold after those of the literal
GroupsExtra ==
  { ("user_group" :> "Open Source Developers" @@
      "demographics" :> "Ages 18-40, 10-200 members" @@
      "priority_features" :> <<>> @@
      "interaction_style" :> "Asynchronous, technical" @@
      "ai_capabilities" :> <<"Code review">>),
    ("user_group" :> "Art" @@
      "demographics" :> "21-30, 5-15 members" @@
      "priority_features" :> <<"Galleries", "Critique threads">> @@
      "interaction_style" :> "Relaxed" @@
      "ai_capabilities" :> <<"Palette suggestions", "Reference search">>) }
  \cup { SampleGroup(d) : d \in WellFormedDemographics \cup MalformedDemographics }

\* the sequences of at most n elements of S
SeqUpTo(S, n) == UNION { [1..m -> S] : m \in 0..n }

\* the first n records of the literal, then further records, then either
\* nothing or the rest of the literal
GroupsDatasets ==
  { SubSeq(GroupsData, 1, n) \o x \o SubSeq(GroupsData, n + 1, m) :
      n \in 0..Len(GroupsData), m \in {0, Len(GroupsData)},
      x \in SeqUpTo(GroupsExtra, MaxExtra) }

GroupsColors == <<"#1FB8CD", "#FFC185", "#ECEBD5", "#5D878F">>

\* the bullet of the hover text (U+2022 in the source), one character
Bullet == "*"

\* an unpacking that took the first two of any number of parts
IsPairLoose(range) ==
  LET parts == Split(range, "-")
  IN  Len(parts) >= 2 /\ IsInt(parts[1]) /\ IsInt(parts[2])

\* "<low>-<high>": map(int, range.split('-')) unpacks into exactly two ints
IsPair(range) ==
  LET parts == Split(range, "-")
  IN  Len(parts) = 2 /\ IsInt(parts[1]) /\ IsInt(parts[2])

PairLow(range) == IntOf(Split(range, "-")[1])

\* a parse that took the low bound for the high one
PairHighAsLow(range) == IntOf(Split(range, "-")[1])

\* the second of the two ints
PairHigh(range) == IntOf(Split(range, "-")[2])

\* group['demographics'].split(',')[0].replace('Ages ', '')
AgeRange(group) == Replace(Split(group["demographics"], ",")[1], "Ages ", "")

\* group['demographics'].split(',')[1].strip().split(' ')[0]
MemberRange(group) ==
  Split(Strip(Split(group["demographics"], ",")[2]), " ")[1]

\* group['user_group'].replace(..).replace(..).replace(..).strip()
GroupAbbreviation(group) ==
  Strip(Replace(Replace(Replace(group["user_group"],
                                "Communities", ""),
                        "Educational", "Edu"),
                "Professional", "Prof"))

\* the abbreviation without the cut to 15 characters
GroupShortUncut(group) == GroupAbbreviation(group)

\* if len(group_short) > 15: group_short = group_short[:15]
GroupShort(group) == CutPlain(GroupAbbreviation(group), 15)

\* ('<br>* '.join(items)[:100]) followed by the '...' of the f-string
HoverList(items) == CutAlways(Join("<br>" \o Bullet \o " ", items), 100)

HoverText(group) ==
  "<b>" \o group["user_group"] \o "</b><br>\n"
  \o "<b>Demographics:</b> " \o group["demographics"] \o "<br>\n"
  \o "<b>Interaction:</b> " \o group["interaction_style"] \o "<br>\n"
  \o "<b>Priority Features:</b><br>" \o Bullet \o " "
  \o HoverList(group["priority_features"]) \o "<br>\n"
  \o "<b>AI Capabilities:</b><br>" \o Bullet \o " "
  \o HoverList(group["ai_capabilities"])

\* the palette entry of the k-th group (k from 0): colors[i]
GroupColorIndex(k) == k + 1

\* the exception one pass of the processing loop raises, or "none"
GroupError(group, k) ==
  IF ~IsPair(AgeRange(group)) THEN "ValueError"
  ELSE IF Len(Split(group["demographics"], ",")) < 2 THEN "IndexError"
  ELSE IF ~IsPair(MemberRange(group)) THEN "ValueError"
  ELSE IF GroupColorIndex(k) \notin 1..Len(GroupsColors) THEN "IndexError"
  ELSE "none"

\* the dict one pass of the processing loop appends to chart_data
GroupRow(group, k) ==
  ("group" :> GroupShort(group) @@
   "full_group" :> group["user_group"] @@
   "priority_features" :> Len(group["priority_features"]) @@
   "ai_capabilities" :> Len(group["ai_capabilities"]) @@
   "median_age" :>
      Quotient(PairLow(AgeRange(group)) + PairHigh(AgeRange(group)), 2) @@
   "member_size_scaled" :>
      [log10 |-> Quotient(PairLow(MemberRange(group))
                            + PairHigh(MemberRange(group)), 2)] @@
   "hover_text" :> HoverText(group) @@
   "color" :> GroupsColors[GroupColorIndex(k)])

GroupRowKeys ==
  <<"group", "full_group", "priority_features", "ai_capabilities",
    "median_age", "member_size_scaled", "hover_text", "color">>

\* the truncations of one pass of the processing loop
GroupCuts(group) ==
  << Cut("group_short", 15, GroupAbbreviation(group), GroupShort(group)),
     Cut("priority_features", 100,
         Join("<br>" \o Bullet \o " ", group["priority_features"]),
         HoverList(group["priority_features"])),
     Cut("ai_capabilities", 100,
         Join("<br>" \o Bullet \o " ", group["ai_capabilities"]),
         HoverList(group["ai_capabilities"])) >>

GroupsMetrics ==
  << <<"priority_features", "Priority Features", "#1FB8CD">>,
     <<"ai_capabilities", "AI Capabilities", "#FFC185">>,
     <<"median_age", "Median Age/10", "#ECEBD5">>,
     <<"member_size_scaled", "Member Size (log)", "#5D878F">> >>

\* df[metric] if metric != 'median_age' else df[metric]/10
MetricValues(frame, metric) ==
  IF metric # "median_age" THEN Column(frame, metric)
  ELSE [k \in 1..Len(frame.rows) |->
          Quotient(frame.rows[k][metric].num, frame.rows[k][metric].den * 10)]

GroupsTrace(frame, m) ==
  [ type |-> "bar",
    name |-> GroupsMetrics[m][2],
    x |-> Column(frame, "group"),
    y |-> MetricValues(frame, GroupsMetrics[m][1]),
    marker_color |-> GroupsMetrics[m][3] ]

GroupsInit ==
  /\ script = "groups"
  /\ pc = "process"
  /\ input_types = <<>>
  /\ data \in GroupsDatasets

\* for i, group in enumerate(data): one pass, or the end of the loop
GroupsProcess ==
  /\ script = "groups" /\ pc = "process"
  /\ IF i < Len(data)
       THEN IF GroupError(data[i + 1], i) = "none"
              THEN /\ chart_data' = Append(chart_data, GroupRow(data[i + 1], i))
                   /\ cuts' = cuts \o GroupCuts(data[i + 1])
                   /\ i' = i + 1
                   /\ UNCHANGED <<pc, err>>
              ELSE /\ err' = GroupError(data[i + 1], i)
                   /\ pc' = "failed"
                   \* the cuts made before the exception are those of the
                   \* statements before it
                   /\ cuts' = IF IsPair(AgeRange(data[i + 1]))
                                 /\ Len(Split(data[i + 1]["demographics"], ",")) >= 2
                                 /\ IsPair(MemberRange(data[i + 1]))
                              THEN cuts \o GroupCuts(data[i + 1])
                              ELSE cuts
                   /\ UNCHANGED <<chart_data, i>>
       ELSE /\ pc' = "dataframe"
            /\ i' = 0
            /\ UNCHANGED <<chart_data, cuts, err>>
  /\ data' = data
  /\ UNCHANGED <<script, prev, df, fig, rendered, files, chartFrame>>

\* df = pd.DataFrame(chart_data); fig = go.Figure()
GroupsDataFrame ==
  /\ script = "groups" /\ pc = "dataframe"
  /\ df' = DataFrame(chart_data, GroupRowKeys)
  /\ fig' = NoFig
  /\ pc' = "traces"
  /\ UNCHANGED <<script, prev, err, i, data, chart_data, cuts, rendered, files,
                 chartFrame>>

\* for i, (metric, label, color) in enumerate(metrics): fig.add_trace(go.Bar(..))
GroupsAddTrace ==
  /\ script = "groups" /\ pc = "traces"
  /\ IF i < Len(GroupsMetrics)
       THEN IF HasColumn(df, "group")
              THEN /\ fig' = [fig EXCEPT !.data = Append(@, GroupsTrace(df, i + 1))]
                   /\ rendered' = Append(rendered, GroupsTrace(df, i + 1))
                   /\ i' = i + 1
                   /\ UNCHANGED <<pc, err>>
              ELSE /\ err' = "KeyError"
                   /\ pc' = "failed"
                   /\ UNCHANGED <<fig, rendered, i>>
       ELSE /\ pc' = "layout"
            /\ i' = 0
            /\ UNCHANGED <<fig, rendered, err>>
  /\ UNCHANGED <<script, prev, data, chart_data, df, cuts, files, chartFrame>>

\* fig.update_layout(title=.., xaxis_title=.., yaxis_title=.., barmode=.., legend=..)
GroupsLayout ==
  /\ script = "groups" /\ pc = "layout"
  /\ fig' = [fig EXCEPT !.layout =
               <<"Discord AI Bot User Groups", "User Groups", "Scaled Values",
                 "group">>]
  /\ pc' = "write"
  /\ UNCHANGED <<script, prev, err, i, data, chart_data, df, cuts, rendered, files,
                 chartFrame>>

\* fig.write_image("discord_user_groups.png")
GroupsWrite ==
  /\ script = "groups" /\ pc = "write"
  /\ files' = Append(files, "discord_user_groups.png")
  /\ pc' = "done"
  /\ UNCHANGED <<script, prev, err, i, data, chart_data, df, cuts, fig, rendered,
                 chartFrame>>

(***************************************************************************)
(* docs/brainstorming_MCP/chart_script.py: the MCP server scatter plot.    *)
(***************************************************************************)
\* data  (docs/brainstorming_MCP/chart_script.py, lines 5-126)
McpChartData ==
  <<
    ("Server Name" :> "Discord MCP Server" @@
      "Category" :> "Discord Integration" @@
      "Key Features" :> "Send messages, read history, manage channels, user management, reactions" @@
      "Best Use Cases" :> "Direct Discord bot control, server management, automated responses" @@
      "Installation Complexity" :> "Medium" @@
      "GitHub Stars" :> "150+"),
    ("Server Name" :> "Web Search (Brave)" @@
      "Category" :> "Web Search" @@
      "Key Features" :> "Privacy-focused search, real-time results, web scraping" @@
      "Best Use Cases" :> "Information retrieval, fact-checking, research queries" @@
      "Installation Complexity" :> "Easy" @@
      "GitHub Stars" :> "200+"),
    ("Server Name" :> "GitHub MCP Server" @@
      "Category" :> "Development Tools" @@
      "Key Features" :> "Repository management, code search, issue tracking, PRs" @@
      "Best Use Cases" :> "Code assistance, project management, developer workflows" @@
      "Installation Complexity" :> "Easy" @@
      "GitHub Stars" :> "500+"),
    ("Server Name" :> "Memory/Knowledge Graph" @@
      "Category" :> "Memory & Knowledge" @@
      "Key Features" :> "Persistent memory, context retention, knowledge graphs" @@
      "Best Use Cases" :> "Long-term conversations, user preferences, project continuity" @@
      "Installation Complexity" :> "Medium" @@
      "GitHub Stars" :> "300+"),
    ("Server Name" :> "PostgreSQL MCP" @@
      "Category" :> "Database" @@
      "Key Features" :> "Database queries, schema inspection, data analysis" @@
      "Best Use Cases" :> "Data-driven responses, analytics, user data management" @@
      "Installation Complexity" :> "Medium" @@
      "GitHub Stars" :> "180+"),
    ("Server Name" :> "File System MCP" @@
      "Category" :> "File Operations" @@
      "Key Features" :> "File read/write, directory management, secure access" @@
      "Best Use Cases" :> "Document processing, file management, content generation" @@
      "Installation Complexity" :> "Easy" @@
      "GitHub Stars" :> "250+"),
    ("Server Name" :> "Notion MCP" @@
      "Category" :> "Productivity" @@
      "Key Features" :> "Database management, page creation, content organization" @@
      "Best Use Cases" :> "Knowledge management, documentation, project tracking" @@
      "Installation Complexity" :> "Medium" @@
      "GitHub Stars" :> "220+"),
    ("Server Name" :> "Slack MCP" @@
      "Category" :> "Communication" @@
      "Key Features" :> "Message sending, channel management, workspace integration" @@
      "Best Use Cases" :> "Team communication, notifications, workflow automation" @@
      "Installation Complexity" :> "Medium" @@
      "GitHub Stars" :> "190+"),
    ("Server Name" :> "OpenAI Tools MCP" @@
      "Category" :> "AI Tools" @@
      "Key Features" :> "Image generation, text processing, AI model access" @@
      "Best Use Cases" :> "Content creation, AI-powered responses, multimedia generation" @@
      "Installation Complexity" :> "Easy" @@
      "GitHub Stars" :> "400+"),
    ("Server Name" :> "Perplexity MCP" @@
      "Category" :> "AI Search" @@
      "Key Features" :> "Real-time web search, AI-powered research, citations" @@
      "Best Use Cases" :> "Research assistance, fact-checking, current events" @@
      "Installation Complexity" :> "Easy" @@
      "GitHub Stars" :> "160+"),
    ("Server Name" :> "Weather MCP" @@
      "Category" :> "Data Services" @@
      "Key Features" :> "Current weather, forecasts, location-based data" @@
      "Best Use Cases" :> "Weather queries, location services, environmental data" @@
      "Installation Complexity" :> "Easy" @@
      "GitHub Stars" :> "120+"),
    ("Server Name" :> "Google Calendar MCP" @@
      "Category" :> "Productivity" @@
      "Key Features" :> "Event management, scheduling, calendar integration" @@
      "Best Use Cases" :> "Meeting scheduling, reminders, calendar queries" @@
      "Installation Complexity" :> "Medium" @@
      "GitHub Stars" :> "140+"),
    ("Server Name" :> "Redis MCP" @@
      "Category" :> "Database" @@
      "Key Features" :> "Key-value storage, caching, real-time data" @@
      "Best Use Cases" :> "Session management, caching, real-time features" @@
      "Installation Complexity" :> "Medium" @@
      "GitHub Stars" :> "110+"),
    ("Server Name" :> "Docker MCP" @@
      "Category" :> "DevOps" @@
      "Key Features" :> "Container management, deployment, scaling" @@
      "Best Use Cases" :> "DevOps automation, container orchestration, deployment" @@
      "Installation Complexity" :> "Hard" @@
      "GitHub Stars" :> "180+"),
    ("Server Name" :> "Stripe MCP" @@
      "Category" :> "Finance" @@
      "Key Features" :> "Payment processing, subscription management, billing" @@
      "Best Use Cases" :> "E-commerce, payment queries, subscription management" @@
      "Installation Complexity" :> "Medium" @@
      "GitHub Stars" :> "200+") >>

McpChartKeys ==
  <<"Server Name", "Category", "Key Features", "Best Use Cases",
    "Installation Complexity", "GitHub Stars">>

\* further servers a dataset may hold after those of the literal: one with
\* features of exactly 50 characters and use cases of 51, one of a category
\* of its own with empty texts
McpChartExtra ==
  { ("Server Name" :> "Kubernetes Operations MCP Server" @@
      "Category" :> "DevOps" @@
      "Key Features" :> "Cluster scaling, rollouts, secrets, config, health" @@
      "Best Use Cases" :> "Cluster automation, rollbacks, incident diagnostics" @@
      "Installation Complexity" :> "Hard" @@
      "GitHub Stars" :> "90+"),
    ("Server Name" :> "MCP" @@
      "Category" :> "Experimental" @@
      "Key Features" :> "" @@
      "Best Use Cases" :> "" @@
      "Installation Complexity" :> "Unknown" @@
      "GitHub Stars" :> "7") }

McpChartDatasets ==
  { SubSeq(McpChartData, 1, n) \o x :
      n \in 0..Len(McpChartData), x \in SeqUpTo(McpChartExtra, MaxExtra) }

McpPalette ==
  <<"#1FB8CD", "#FFC185", "#ECEBD5", "#5D878F", "#D2BA4C", "#B4413C",
    "#964325", "#944454", "#13343B", "#DB4545">>

\* df[c] = vals: an existing column is overwritten in place, a new one is
\* added after the others
WithColumn(frame, c, vals) ==
  [ frame EXCEPT
      !.columns = IF HasColumn(frame, c) THEN @ ELSE Append(@, c),
      !.rows = [k \in 1..Len(frame.rows) |-> (c :> vals[k]) @@ frame.rows[k]] ]

\* x.replace('+', '')
StarsText(x) == Replace(x, "+", "")

\* x.replace('MCP Server', '').replace('MCP', '').strip()
ServerAbbreviation(x) == Strip(Replace(Replace(x, "MCP Server", ""), "MCP", ""))

\* lambda x: x[:15] if len(x) > 15 else x
ServerShort(x) == CutPlain(x, 15)

\* lambda x: x[:50] + '...' if len(x) > 50 else x
TextShort(x) == CutEllipsis(x, 50)

\* a script that stored the abbreviation back into the name column
ServerShortColumnClobbers == "Server Name"

\* the column the abbreviated server names are stored in
ServerShortColumn == "Server_Short"

\* complexity_map; a value that is no key maps to NaN
ComplexityNumeric(x) ==
  CASE x = "Easy" -> 1 [] x = "Medium" -> 2 [] x = "Hard" -> 3 [] OTHER -> "NaN"

\* the distinct values of a list, in the order of their first occurrence
RECURSIVE Distinct(_)
Distinct(list) ==
  IF list = <<>> THEN <<>>
  ELSE LET rest == Distinct(SubSeq(list, 1, Len(list) - 1))
           last == list[Len(list)]
       IN  IF \E k \in 1..Len(rest) : rest[k] = last THEN rest
           ELSE Append(rest, last)

\* the rows whose column c holds v, in their order
RECURSIVE RowsWhere(_, _, _)
RowsWhere(rows, c, v) ==
  IF rows = <<>> THEN <<>>
  ELSE IF rows[1][c] = v THEN <<rows[1]>> \o RowsWhere(Tail(rows), c, v)
  ELSE RowsWhere(Tail(rows), c, v)

\* the palette position px.scatter gives the k-th category (k from 0):
\* color_discrete_sequence is cycled through
PaletteIndex(k, n) == (k % n) + 1

\* px.scatter(df, color='Category', ..): one trace per category, in the
\* order the categories first occur
ScatterTraces(frame) ==
  LET cats == Distinct(Column(frame, "Category"))
  IN  [ c \in 1..Len(cats) |->
          LET rows == RowsWhere(frame.rows, "Category", cats[c])
          IN  [ type |-> "scatter",
                name |-> cats[c],
                marker_color |-> McpPalette[PaletteIndex(c - 1, Len(McpPalette))],
                x |-> [k \in 1..Len(rows) |-> rows[k]["Complexity_Numeric"]],
                y |-> [k \in 1..Len(rows) |-> rows[k]["Stars_Numeric"]],
                customdata |->
                  [k \in 1..Len(rows) |->
                     << rows[k]["Server_Short"], rows[k]["Installation Complexity"],
                        rows[k]["Features_Short"], rows[k]["Use_Cases_Short"] >>] ] ]

McpChartInit ==
  /\ script = "mcpchart"
  /\ pc = "dataframe"
  /\ input_types = <<>>
  /\ data \in McpChartDatasets

\* df = pd.DataFrame(data)
McpChartDataFrame ==
  /\ script = "mcpchart" /\ pc = "dataframe"
  /\ df' = DataFrame(data, McpChartKeys)
  /\ pc' = "stars"
  /\ UNCHANGED <<script, prev, err, i, data, chart_data, cuts, fig, rendered, files,
                 chartFrame>>

\* df['Stars_Numeric'] = df['GitHub Stars'].str.replace('+', '').astype(int)
McpChartStars ==
  /\ script = "mcpchart" /\ pc = "stars"
  /\ IF ~HasColumn(df, "GitHub Stars")
       THEN err' = "KeyError" /\ pc' = "failed" /\ df' = df
       ELSE IF \E k \in 1..Len(df.rows) : ~IsInt(StarsText(df.rows[k]["GitHub Stars"]))
         THEN err' = "ValueError" /\ pc' = "failed" /\ df' = df
         ELSE /\ df' = WithColumn(df, "Stars_Numeric",
                         [k \in 1..Len(df.rows) |->
                            IntOf(StarsText(df.rows[k]["GitHub Stars"]))])
              /\ pc' = "server_short"
              /\ err' = err
  /\ UNCHANGED <<script, prev, i, data, chart_data, cuts, fig, rendered, files,
                 chartFrame>>

\* the two assignments to df['Server_Short']: the abbreviation, then the cut
McpChartServerShort ==
  /\ script = "mcpchart" /\ pc = "server_short"
  /\ LET abbr == [k \in 1..Len(df.rows) |->
                    ServerAbbreviation(df.rows[k]["Server Name"])]
         mid  == WithColumn(df, ServerShortColumn, abbr)
         short == [k \in 1..Len(mid.rows) |->
                     ServerShort(mid.rows[k][ServerShortColumn])]
     IN  /\ df' = WithColumn(mid, ServerShortColumn, short)
         /\ cuts' = cuts \o [k \in 1..Len(mid.rows) |->
                       Cut("Server_Short", 15, mid.rows[k][ServerShortColumn], short[k])]
  /\ pc' = "features_short"
  /\ UNCHANGED <<script, prev, err, i, data, chart_data, fig, rendered, files,
                 chartFrame>>

\* df['Features_Short'] = ..; df['Use_Cases_Short'] = ..
McpChartTextShort ==
  /\ script = "mcpchart" /\ pc \in {"features_short", "use_cases_short"}
  /\ LET from == IF pc = "features_short" THEN "Key Features" ELSE "Best Use Cases"
         to   == IF pc = "features_short" THEN "Features_Short" ELSE "Use_Cases_Short"
         short == [k \in 1..Len(df.rows) |-> TextShort(df.rows[k][from])]
     IN  /\ df' = WithColumn(df, to, short)
         /\ cuts' = cuts \o [k \in 1..Len(df.rows) |->
                       Cut(to, 50, df.rows[k][from], short[k])]
  /\ pc' = IF pc = "features_short" THEN "use_cases_short" ELSE "complexity"
  /\ UNCHANGED <<script, prev, err, i, data, chart_data, fig, rendered, files,
                 chartFrame>>

\* df['Complexity_Numeric'] = df['Installation Complexity'].map(complexity_map)
McpChartComplexity ==
  /\ script = "mcpchart" /\ pc = "complexity"
  /\ df' = WithColumn(df, "Complexity_Numeric",
             [k \in 1..Len(df.rows) |->
                ComplexityNumeric(df.rows[k]["Installation Complexity"])])
  /\ pc' = "scatter"
  /\ UNCHANGED <<script, prev, err, i, data, chart_data, cuts, fig, rendered, files,
                 chartFrame>>

\* fig = px.scatter(df, ..)
McpChartScatter ==
  /\ script = "mcpchart" /\ pc = "scatter"
  /\ fig' = [data |-> ScatterTraces(df),
             layout |-> <<"MCP Server Comparison Chart">>]
  /\ rendered' = rendered \o ScatterTraces(df)
  /\ pc' = "layout"
  /\ UNCHANGED <<script, prev, err, i, data, chart_data, df, cuts, files, chartFrame>>

\* fig.update_xaxes(..); fig.update_yaxes(..); fig.update_layout(..);
\* fig.update_traces(hovertemplate=..)
McpChartLayout ==
  /\ script = "mcpchart" /\ pc = "layout"
  /\ fig' = [fig EXCEPT !.layout =
               @ \o <<"Install Complex", "GitHub Stars", "showlegend",
                      "hovertemplate">>]
  /\ pc' = "write"
  /\ UNCHANGED <<script, prev, err, i, data, chart_data, df, cuts, rendered, files,
                 chartFrame>>

\* fig.write_image('mcp_servers_comparison.png')
McpChartWrite ==
  /\ script = "mcpchart" /\ pc = "write"
  /\ files' = Append(files, "mcp_servers_comparison.png")
  /\ pc' = "done"
  /\ UNCHANGED <<script, prev, err, i, data, chart_data, df, cuts, fig, rendered,
                 chartFrame>>

(***************************************************************************)
(* archive/chart_script.py: the RPM bar chart.                             *)
(***************************************************************************)
\* data  (archive/chart_script.py, lines 7-15)
RpmData ==
  <<
    ("Model" :> "Gemini 2.5 Flash" @@
      "RPM" :> 10 @@
      "TPM" :> 250000 @@
      "RPD" :> 250 @@
      "Status" :> "Current" @@
      "Available_Free" :> "Yes"),
    ("Model" :> "Gemini 2.5 Flash-Lite" @@
      "RPM" :> 15 @@
      "TPM" :> 250000 @@
      "RPD" :> 1000 @@
      "Status" :> "Current" @@
      "Available_Free" :> "Yes"),
    ("Model" :> "Gemini 2.0 Flash" @@
      "RPM" :> 15 @@
      "TPM" :> 1000000 @@
      "RPD" :> 200 @@
      "Status" :> "Current" @@
      "Available_Free" :> "Yes"),
    ("Model" :> "Gemini 2.0 Flash-Lite" @@
      "RPM" :> 30 @@
      "TPM" :> 1000000 @@
      "RPD" :> 200 @@
      "Status" :> "Current" @@
      "Available_Free" :> "Yes"),
    ("Model" :> "Gemini 1.5 Flash" @@
      "RPM" :> 15 @@
      "TPM" :> 250000 @@
      "RPD" :> 50 @@
      "Status" :> "Deprecated" @@
      "Available_Free" :> "Yes"),
    ("Model" :> "Gemini 1.5 Flash-8B" @@
      "RPM" :> 15 @@
      "TPM" :> 250000 @@
      "RPD" :> 50 @@
      "Status" :> "Deprecated" @@
      "Available_Free" :> "Yes"),
    ("Model" :> "Gemma 3 & 3n" @@
      "RPM" :> 30 @@
      "TPM" :> 15000 @@
      "RPD" :> 14400 @@
      "Status" :> "Current" @@
      "Available_Free" :> "Limited") >>

RpmKeys == <<"Model", "RPM", "TPM", "RPD", "Status", "Available_Free">>

\* further models a dataset may hold after those of the literal
RpmExtra ==
  { ("Model" :> "Gemini 3.0 Flash Preview" @@ "RPM" :> 5 @@ "TPM" :> 125000 @@
     "RPD" :> 100 @@ "Status" :> "Preview" @@ "Available_Free" :> "Yes"),
    ("Model" :> "Gemma 3 & 3n Mini" @@ "RPM" :> 60 @@ "TPM" :> 15000 @@
     "RPD" :> 14400 @@ "Status" :> "Current" @@ "Available_Free" :> "Limited") }

RpmDatasets ==
  { SubSeq(RpmData, 1, n) \o x :
      n \in 0..Len(RpmData), x \in SeqUpTo(RpmExtra, MaxExtra) }

\* the chain with '-Lite' dropped and not abbreviated
ShortModelDropsLite(x) ==
  Replace(Replace(Replace(Replace(Replace(x,
    "Gemini ", "G"), "Gemma ", "Ga"), "Flash", "F"), "-Lite", ""), " & 3n", "")

\* the chain of str.replace that makes Short_Model
ShortModel(x) ==
  Replace(Replace(Replace(Replace(Replace(x,
    "Gemini ", "G"), "Gemma ", "Ga"), "Flash", "F"), "-Lite", "L"), " & 3n", "")

\* the column the shortened model names are stored in
ShortModelColumn == "Short_Model"

\* the orders (sequences of the positions in S) that put the keys in
\* non-decreasing order
RECURSIVE SortedOrders(_, _)
SortedOrders(S, key) ==
  IF S = {} THEN { <<>> }
  ELSE LET least == SetMin({ key[k] : k \in S })
       IN  UNION { { <<k>> \o o : o \in SortedOrders(S \ {k}, key) } :
                     k \in { m \in S : key[m] = least } }

\* the rows rearranged under the index labels of the frame before the sort
ReorderedRowsOnly(frame, order) ==
  [ frame EXCEPT !.rows = [k \in 1..Len(order) |-> frame.rows[order[k]]] ]

\* frame[order]: the rows and their index labels, rearranged
Reordered(frame, order) ==
  [ frame EXCEPT !.index = [k \in 1..Len(order) |-> frame.index[order[k]]],
                 !.rows  = [k \in 1..Len(order) |-> frame.rows[order[k]]] ]

\* df.sort_values(c, ascending=True): the default sort is not stable, rows
\* with equal keys may come out in any order
SortValues(frame, c) ==
  { Reordered(frame, o) : o \in SortedOrders(1..Len(frame.rows), Column(frame, c)) }

\* the colour the colors loop appends for a status
StatusColor(status) ==
  IF status = "Current" THEN <<"#1FB8CD">> ELSE <<"#B4413C">>

RpmBar(frame, cols) ==
  [ type |-> "bar",
    name |-> "",
    index |-> frame.index,
    y |-> Column(frame, "Short_Model"),
    x |-> Column(frame, "RPM"),
    marker_color |-> cols,
    text |-> Column(frame, "RPM"),
    customdata |-> [k \in 1..Len(frame.rows) |->
                      << frame.rows[k]["TPM"], frame.rows[k]["RPD"],
                         frame.rows[k]["Status"] >>] ]

\* the two go.Scatter(x=[None], y=[None], ..) traces that make the legend
RpmLegend(k) ==
  [ type |-> "scatter",
    name |-> <<"Current", "Deprecated">>[k],
    index |-> <<>>,
    marker_color |-> <<"#1FB8CD", "#B4413C">>[k] ]

RpmInit ==
  /\ script = "rpm"
  /\ pc = "dataframe"
  /\ input_types = <<>>
  /\ data \in RpmDatasets

\* df = pd.DataFrame(data)
RpmDataFrame ==
  /\ script = "rpm" /\ pc = "dataframe"
  /\ df' = DataFrame(data, RpmKeys)
  /\ pc' = "short_model"
  /\ UNCHANGED <<script, prev, err, i, data, chart_data, colors, cuts, fig, rendered,
                 files, tableFrame>>

\* df['Short_Model'] = df['Model'].str.replace(..)..
RpmShortModel ==
  /\ script = "rpm" /\ pc = "short_model"
  /\ IF ~HasColumn(df, "Model")
       THEN err' = "KeyError" /\ pc' = "failed" /\ df' = df
       ELSE /\ df' = WithColumn(df, ShortModelColumn,
                       [k \in 1..Len(df.rows) |-> ShortModel(df.rows[k]["Model"])])
            /\ pc' = "sort"
            /\ err' = err
  /\ UNCHANGED <<script, prev, i, data, chart_data, colors, cuts, fig, rendered,
                 files, tableFrame>>

\* df = df.sort_values('RPM', ascending=True)
RpmSort ==
  /\ script = "rpm" /\ pc = "sort"
  /\ df' \in SortValues(df, "RPM")
  /\ pc' = "colors"
  /\ UNCHANGED <<script, prev, err, i, data, chart_data, colors, cuts, fig, rendered,
                 files, tableFrame>>

\* for status in df['Status']: colors.append(..)
RpmColors ==
  /\ script = "rpm" /\ pc = "colors"
  /\ IF i < Len(df.rows)
       THEN /\ colors' = colors \o StatusColor(df.rows[i + 1]["Status"])
            /\ i' = i + 1
            /\ pc' = pc
       ELSE /\ colors' = colors
            /\ i' = 0
            /\ pc' = "bar"
  /\ UNCHANGED <<script, prev, err, data, chart_data, df, cuts, fig, rendered, files,
                 tableFrame>>

\* fig = go.Figure(); fig.add_trace(go.Bar(..))
RpmAddBar ==
  /\ script = "rpm" /\ pc = "bar"
  /\ fig' = [data |-> <<RpmBar(df, colors)>>, layout |-> <<>>]
  /\ rendered' = Append(rendered, RpmBar(df, colors))
  /\ pc' = "legend"
  /\ UNCHANGED <<script, prev, err, i, data, chart_data, colors, df, cuts, files,
                 tableFrame>>

\* the two fig.add_trace(go.Scatter(..)) of the manual legend
RpmAddLegend ==
  /\ script = "rpm" /\ pc = "legend"
  /\ IF i < 2
       THEN /\ fig' = [fig EXCEPT !.data = Append(@, RpmLegend(i + 1))]
            /\ rendered' = Append(rendered, RpmLegend(i + 1))
            /\ i' = i + 1
            /\ pc' = pc
       ELSE /\ UNCHANGED <<fig, rendered>>
            /\ i' = 0
            /\ pc' = "layout"
  /\ UNCHANGED <<script, prev, err, data, chart_data, colors, df, cuts, files,
                 tableFrame>>

\* fig.update_layout(title=.., xaxis_title=.., yaxis_title=.., legend=..)
RpmLayout ==
  /\ script = "rpm" /\ pc = "layout"
  /\ fig' = [fig EXCEPT !.layout =
               <<"Gemini API Rate Limits (RPM)", "Req/Min", "Models">>]
  /\ pc' = "write"
  /\ UNCHANGED <<script, prev, err, i, data, chart_data, colors, df, cuts, rendered,
                 files, tableFrame>>

\* fig.write_image("gemini_api_comparison.png")
RpmWrite ==
  /\ script = "rpm" /\ pc = "write"
  /\ files' = Append(files, "gemini_api_comparison.png")
  /\ pc' = "done"
  /\ UNCHANGED <<script, prev, err, i, data, chart_data, colors, df, cuts, fig,
                 rendered, tableFrame>>

(***************************************************************************)
(* archive/chart_script_1.py: the TPM bar chart.                           *)
(***************************************************************************)
\* data  (archive/chart_script_1.py, lines 7-15)
TpmData ==
  <<
    ("Model" :> "Gemini 2.5 Flash" @@
      "RPM" :> 10 @@
      "TPM" :> 250000 @@
      "RPD" :> 250 @@
      "Status" :> "Current"),
    ("Model" :> "Gemini 2.5 Flash-Lite" @@
      "RPM" :> 15 @@
      "TPM" :> 250000 @@
      "RPD" :> 1000 @@
      "Status" :> "Current"),
    ("Model" :> "Gemini 2.0 Flash" @@
      "RPM" :> 15 @@
      "TPM" :> 1000000 @@
      "RPD" :> 200 @@
      "Status" :> "Current"),
    ("Model" :> "Gemini 2.0 Flash-Lite" @@
      "RPM" :> 30 @@
      "TPM" :> 1000000 @@
      "RPD" :> 200 @@
      "Status" :> "Current"),
    ("Model" :> "Gemini 1.5 Flash" @@
      "RPM" :> 15 @@
      "TPM" :> 250000 @@
      "RPD" :> 50 @@
      "Status" :> "Deprecated"),
    ("Model" :> "Gemini 1.5 Flash-8B" @@
      "RPM" :> 15 @@
      "TPM" :> 250000 @@
      "RPD" :> 50 @@
      "Status" :> "Deprecated"),
    ("Model" :> "Gemma 3 & 3n" @@
      "RPM" :> 30 @@
      "TPM" :> 15000 @@
      "RPD" :> 14400 @@
      "Status" :> "Limited") >>

TpmKeys == <<"Model", "RPM", "TPM", "RPD", "Status">>

\* further models a dataset may hold after those of the literal
TpmExtra ==
  { ("Model" :> "Gemini 3.0 Flash Preview" @@ "RPM" :> 5 @@ "TPM" :> 125000 @@
     "RPD" :> 100 @@ "Status" :> "Preview"),
    ("Model" :> "Gemma 3 & 3n Mini" @@ "RPM" :> 60 @@ "TPM" :> 15000 @@
     "RPD" :> 14400 @@ "Status" :> "Limited") }

TpmDatasets ==
  { SubSeq(TpmData, 1, n) \o x :
      n \in 0..Len(TpmData), x \in SeqUpTo(TpmExtra, MaxExtra) }

\* color_map
ColorMap ==
  ("Current" :> "#1FB8CD" @@ "Deprecated" :> "#B4413C" @@ "Limited" :> "#D2BA4C")

\* the statuses the trace loop walks
TpmStatuses == <<"Current", "Deprecated", "Limited">>

\* the positions of the rows whose column c holds v, in their order
RECURSIVE PositionsWhere(_, _, _, _)
PositionsWhere(rows, c, v, from) ==
  IF from > Len(rows) THEN <<>>
  ELSE IF rows[from][c] = v THEN <<from>> \o PositionsWhere(rows, c, v, from + 1)
  ELSE PositionsWhere(rows, c, v, from + 1)

\* the frame with no row left out
FilterNothing(frame, c, v) == frame

\* df[df[c] == v]
Filter(frame, c, v) == Reordered(frame, PositionsWhere(frame.rows, c, v, 1))

TpmBar(status_data, status) ==
  [ type |-> "bar",
    name |-> status,
    index |-> status_data.index,
    y |-> Column(status_data, "Model"),
    x |-> Column(status_data, "TPM"),
    marker_color |-> ColorMap[status] ]

TpmInit ==
  /\ script = "tpm"
  /\ pc = "dataframe"
  /\ input_types = <<>>
  /\ data \in TpmDatasets

\* df = pd.DataFrame(data); fig = go.Figure()
TpmDataFrame ==
  /\ script = "tpm" /\ pc = "dataframe"
  /\ df' = DataFrame(data, TpmKeys)
  /\ fig' = NoFig
  /\ pc' = "traces"
  /\ UNCHANGED <<script, prev, err, i, data, chart_data, cuts, rendered, files,
                 chartFrame>>

\* for status in ['Current', 'Deprecated', 'Limited']: one pass, or the end
TpmAddTrace ==
  /\ script = "tpm" /\ pc = "traces"
  /\ IF i < Len(TpmStatuses)
       THEN IF ~HasColumn(df, "Status")
              THEN /\ err' = "KeyError"
                   /\ pc' = "failed"
                   /\ UNCHANGED <<fig, rendered, i>>
              ELSE LET status == TpmStatuses[i + 1]
                       status_data == Filter(df, "Status", status)
                   IN  /\ IF status_data.rows # <<>>
                            THEN /\ fig' = [fig EXCEPT !.data =
                                              Append(@, TpmBar(status_data, status))]
                                 /\ rendered' = Append(rendered, TpmBar(status_data, status))
                            ELSE UNCHANGED <<fig, rendered>>
                       /\ i' = i + 1
                       /\ UNCHANGED <<pc, err>>
       ELSE /\ pc' = "layout"
            /\ i' = 0
            /\ UNCHANGED <<fig, rendered, err>>
  /\ UNCHANGED <<script, prev, data, chart_data, df, cuts, files, chartFrame>>

\* fig.update_layout(..); fig.update_xaxes(tickformat='.0s')
TpmLayout ==
  /\ script = "tpm" /\ pc = "layout"
  /\ fig' = [fig EXCEPT !.layout =
               <<"Gemini API Free Tier TPM Limits", "TPM (Log Scale)", "Model",
                 "log", ".0s">>]
  /\ pc' = "write"
  /\ UNCHANGED <<script, prev, err, i, data, chart_data, df, cuts, rendered, files,
                 chartFrame>>

\* fig.write_image('gemini_tpm_limits.png')
TpmWrite ==
  /\ script = "tpm" /\ pc = "write"
  /\ files' = Append(files, "gemini_tpm_limits.png")
  /\ pc' = "done"
  /\ UNCHANGED <<script, prev, err, i, data, chart_data, df, cuts, fig, rendered,
                 chartFrame>>

(***************************************************************************)
(* docs/brainstorming_MCP/script.py: the MCP server table.                 *)
(***************************************************************************)
\* mcp_servers_data (lines 5-140): a dict, kept as the ordered list of its items
McpServersData ==
  <<
    ("section" :> "Essential MCP Servers" @@
      "servers" :> <<
        ("Server Name" :> "Discord MCP Server" @@
          "Category" :> "Communication" @@
          "Priority" :> "Critical" @@
          "Key Features" :> "Send/read messages, channel management, user roles, reactions, server info" @@
          "Installation" :> "npm i @modelcontextprotocol/server-discord" @@
          "Configuration" :> "Discord Bot Token required" @@
          "Use Cases" :> "Direct Discord bot control, automated moderation, server management"),
        ("Server Name" :> "Memory MCP Server" @@
          "Category" :> "Intelligence" @@
          "Priority" :> "Critical" @@
          "Key Features" :> "Persistent memory, conversation context, user preferences, knowledge graphs" @@
          "Installation" :> "npx @modelcontextprotocol/server-memory" @@
          "Configuration" :> "Local storage or database connection" @@
          "Use Cases" :> "Remember user preferences, maintain conversation context, long-term learning"),
        ("Server Name" :> "Web Search MCP (Brave)" @@
          "Category" :> "Information" @@
          "Priority" :> "High" @@
          "Key Features" :> "Real-time web search, privacy-focused, current information retrieval" @@
          "Installation" :> "npx @modelcontextprotocol/server-brave-search" @@
          "Configuration" :> "Brave Search API key" @@
          "Use Cases" :> "Answer current questions, fact-checking, research assistance"),
        ("Server Name" :> "GitHub MCP Server" @@
          "Category" :> "Development" @@
          "Priority" :> "High" @@
          "Key Features" :> "Repository access, code search, issue management, PR handling" @@
          "Installation" :> "npx @modelcontextprotocol/server-github" @@
          "Configuration" :> "GitHub Personal Access Token" @@
          "Use Cases" :> "Code assistance, project management, developer workflow automation"),
        ("Server Name" :> "File System MCP" @@
          "Category" :> "Data" @@
          "Priority" :> "High" @@
          "Key Features" :> "Read/write files, directory management, secure file operations" @@
          "Installation" :> "npx @modelcontextprotocol/server-filesystem" @@
          "Configuration" :> "Path restrictions for security" @@
          "Use Cases" :> "Document processing, file management, content generation") >>),
    ("section" :> "Database MCP Servers" @@
      "servers" :> <<
        ("Server Name" :> "PostgreSQL MCP" @@
          "Category" :> "Database" @@
          "Priority" :> "Medium" @@
          "Key Features" :> "SQL queries, schema inspection, data analysis, read-only access" @@
          "Installation" :> "npx @modelcontextprotocol/server-postgres" @@
          "Configuration" :> "Database connection string" @@
          "Use Cases" :> "Data-driven responses, analytics, user data queries"),
        ("Server Name" :> "SQLite MCP" @@
          "Category" :> "Database" @@
          "Priority" :> "Medium" @@
          "Key Features" :> "Local database, lightweight, embedded storage" @@
          "Installation" :> "npx @modelcontextprotocol/server-sqlite" @@
          "Configuration" :> "Database file path" @@
          "Use Cases" :> "Local data storage, user settings, bot configuration"),
        ("Server Name" :> "Redis MCP" @@
          "Category" :> "Database" @@
          "Priority" :> "Medium" @@
          "Key Features" :> "Key-value storage, caching, session management" @@
          "Installation" :> "Custom implementation needed" @@
          "Configuration" :> "Redis connection details" @@
          "Use Cases" :> "Session management, caching, real-time features") >>),
    ("section" :> "Productivity MCP Servers" @@
      "servers" :> <<
        ("Server Name" :> "Notion MCP" @@
          "Category" :> "Productivity" @@
          "Priority" :> "Medium" @@
          "Key Features" :> "Database management, page creation, content organization" @@
          "Installation" :> "Community server available" @@
          "Configuration" :> "Notion API integration token" @@
          "Use Cases" :> "Knowledge management, documentation, project tracking"),
        ("Server Name" :> "Google Calendar MCP" @@
          "Category" :> "Productivity" @@
          "Priority" :> "Low" @@
          "Key Features" :> "Event management, scheduling, calendar integration" @@
          "Installation" :> "Community server available" @@
          "Configuration" :> "Google API credentials" @@
          "Use Cases" :> "Meeting scheduling, reminders, calendar queries"),
        ("Server Name" :> "Slack MCP" @@
          "Category" :> "Communication" @@
          "Priority" :> "Low" @@
          "Key Features" :> "Cross-platform messaging, workspace integration" @@
          "Installation" :> "Community server available" @@
          "Configuration" :> "Slack bot token" @@
          "Use Cases" :> "Multi-platform communication, team notifications") >>),
    ("section" :> "AI Enhancement MCP Servers" @@
      "servers" :> <<
        ("Server Name" :> "Perplexity MCP" @@
          "Category" :> "AI Search" @@
          "Priority" :> "High" @@
          "Key Features" :> "AI-powered research, real-time search, citations" @@
          "Installation" :> "Official server available" @@
          "Configuration" :> "Perplexity API key" @@
          "Use Cases" :> "Research assistance, fact-checking, current events"),
        ("Server Name" :> "OpenAI Tools MCP" @@
          "Category" :> "AI Tools" @@
          "Priority" :> "Medium" @@
          "Key Features" :> "Image generation, text processing, multimodal AI" @@
          "Installation" :> "Community implementations" @@
          "Configuration" :> "OpenAI API key" @@
          "Use Cases" :> "Content creation, image generation, AI-powered responses"),
        ("Server Name" :> "Hugging Face MCP" @@
          "Category" :> "AI Tools" @@
          "Priority" :> "Medium" @@
          "Key Features" :> "Model access, dataset interaction, AI pipeline integration" @@
          "Installation" :> "Official server available" @@
          "Configuration" :> "HF API token" @@
          "Use Cases" :> "Advanced AI capabilities, model experimentation") >>) >>


McpKeys ==
  <<"Server Name", "Category", "Priority", "Key Features", "Installation",
    "Configuration", "Use Cases">>

\* further sections a dataset may hold after those of the literal
McpExtraSections ==
  { ("section" :> "Planned MCP Servers" @@ "servers" :> <<>>),
    ("section" :> "Community MCP Servers" @@
      "servers" :> <<
        ("Server Name" :> "Weather MCP Server" @@
          "Category" :> "Data" @@
          "Priority" :> "Low" @@
          "Key Features" :> "Forecasts, alerts" @@
          "Installation" :> "npm i weather-mcp" @@
          "Configuration" :> "None" @@
          "Use Cases" :> "Weather questions") >>) }

\* the keys of a dict are distinct
DistinctSections(d) ==
  \A a \in 1..Len(d) : \A b \in 1..Len(d) :
    d[a]["section"] = d[b]["section"] => a = b

McpDatasets ==
  { d \in { SubSeq(McpServersData, 1, n) \o x :
              n \in 0..Len(McpServersData), x \in SeqUpTo(McpExtraSections, MaxExtra) } :
      DistinctSections(d) }

\* the server record with the name of the first section of the literal
FlattenedFirstSection(server, category) ==
  ("Section" :> "Essential MCP Servers") @@ server

\* server['Section'] = category: what the server record of the dataset
\* holds afterwards (all_servers holds the same object)
Flattened(server, category) == ("Section" :> category) @@ server

\* s * n
RECURSIVE Repeat(_, _)
Repeat(s, n) == IF n <= 0 THEN "" ELSE s \o Repeat(s, n - 1)

\* len(df[df[c] == v])
CountWhere(frame, c, v) == Len(PositionsWhere(frame.rows, c, v, 1))

\* the lines of the loop over df['Category'].value_counts(); value_counts
\* sorts by count, and the script fixes no order among equal counts: the
\* lines are kept as a set
CategoryLines(frame) ==
  { "  " \o c \o ": " \o ToStr(CountWhere(frame, "Category", c)) \o " servers" :
      c \in { frame.rows[k]["Category"] : k \in 1..Len(frame.rows) } }

McpInit ==
  /\ script = "mcp"
  /\ pc = "flatten"
  /\ input_types = <<>>
  /\ data \in McpDatasets

\* for category, servers in mcp_servers_data.items(): for server in servers:
\* one pass of the inner loop, the end of the inner loop, or the end of both
McpFlatten ==
  /\ script = "mcp" /\ pc = "flatten"
  /\ IF i < Len(data)
       THEN IF j < Len(data[i + 1]["servers"])
              THEN LET category == data[i + 1]["section"]
                       server == data[i + 1]["servers"][j + 1]
                   IN  /\ data' = [data EXCEPT ![i + 1] =
                                     ("servers" :> [@["servers"] EXCEPT ![j + 1] =
                                                      Flattened(server, category)]) @@ @]
                       /\ all_servers' = Append(all_servers, Flattened(server, category))
                       /\ j' = j + 1
                       /\ UNCHANGED <<i, pc>>
              ELSE /\ i' = i + 1
                   /\ j' = 0
                   /\ UNCHANGED <<data, all_servers, pc>>
       ELSE /\ pc' = "dataframe"
            /\ i' = 0
            /\ UNCHANGED <<data, all_servers, j>>
  /\ UNCHANGED <<script, prev, err, lit, sankeyVars, chart_data, colors, out, df,
                 cuts, fig, rendered, files, csv, df2>>

\* df = pd.DataFrame(all_servers)
McpDataFrame ==
  /\ script = "mcp" /\ pc = "dataframe"
  /\ df' = DataFrame(all_servers, Append(McpKeys, "Section"))
  /\ pc' = "to_csv"
  /\ UNCHANGED <<script, prev, err, i, j, data, lit, sankeyVars, chart_data, colors,
                 all_servers, out, cuts, fig, rendered, files, csv, df2>>

\* df.to_csv('mcp_servers_integration_guide.csv', index=False)
\* the call writes the file and returns, or raises when the file system
\* refuses the file; files lists the writes that returned
McpToCsv ==
  /\ script = "mcp" /\ pc = "to_csv"
  /\ \/ /\ files' = Append(files, "mcp_servers_integration_guide.csv")
        /\ csv' = Append(csv, [name |-> "mcp_servers_integration_guide.csv",
                                lines |-> ToCsv(df, {})])
        /\ pc' = "print_total"
        /\ err' = err
     \/ /\ err' = "OSError"
        /\ pc' = "failed"
        /\ UNCHANGED <<files, csv>>
  /\ UNCHANGED <<script, prev, i, j, data, lit, sankeyVars, chart_data, colors,
                 all_servers, out, df, cuts, fig, rendered, df2>>

\* the title, the rule and the total
McpPrintTotal ==
  /\ script = "mcp" /\ pc = "print_total"
  /\ out' = out \o << "MCP Servers Integration Guide for Discord Chatbot",
                      Repeat("=", 55),
                      "\nTotal servers analyzed: " \o ToStr(Len(df.rows)) >>
  /\ pc' = "print_priorities"
  /\ UNCHANGED <<script, prev, err, i, j, data, lit, sankeyVars, chart_data, colors,
                 all_servers, df, cuts, fig, rendered, files, csv, df2>>

\* the four priority counts
McpPrintPriorities ==
  /\ script = "mcp" /\ pc = "print_priorities"
  /\ IF ~HasColumn(df, "Priority")
       THEN err' = "KeyError" /\ pc' = "failed" /\ out' = out
       ELSE /\ out' = out \o
                 << "Critical priority servers: " \o ToStr(CountWhere(df, "Priority", "Critical")),
                    "High priority servers: " \o ToStr(CountWhere(df, "Priority", "High")),
                    "Medium priority servers: " \o ToStr(CountWhere(df, "Priority", "Medium")),
                    "Low priority servers: " \o ToStr(CountWhere(df, "Priority", "Low")) >>
            /\ pc' = "print_categories"
            /\ err' = err
  /\ UNCHANGED <<script, prev, i, j, data, lit, sankeyVars, chart_data, colors,
                 all_servers, df, cuts, fig, rendered, files, csv, df2>>

\* the summary by category and the closing line
McpPrintCategories ==
  /\ script = "mcp" /\ pc = "print_categories"
  /\ out' = out \o
       << "\nServers by category:",
          CategoryLines(df),
          "\nFile 'mcp_servers_integration_guide.csv' created with detailed server information.",
          "This file contains comprehensive details for all "
             \o ToStr(Len(df.rows)) \o " recommended MCP servers." >>
  /\ pc' = "done"
  /\ UNCHANGED <<script, prev, err, i, j, data, lit, sankeyVars, chart_data, colors,
                 all_servers, df, cuts, fig, rendered, files, csv, df2>>

(***************************************************************************)
(* Claims about truncation, the dataset records and the colours.           *)
(***************************************************************************)
\* the truncation of a site, as the site applies it
SiteCut(site, x) ==
  CASE site \in {"group_short", "Server_Short"} -> CutPlain(x, 15)
    [] site \in {"Features_Short", "Use_Cases_Short"} -> CutEllipsis(x, 50)
    [] site \in {"priority_features", "ai_capabilities"} -> CutAlways(x, 100)

\* C4: at every truncation site the string produced is at most as long as
\* the limit of the site, the ellipsis marker counted.
C4_CutWithinLimit ==
  \A k \in 1..Len(cuts) : Len(cuts[k].output) <= cuts[k].limit

\* C5: at every truncation site a string that is at most as long as the
\* limit of the site is returned unchanged, with no marker appended.
C5_ShortUnchanged ==
  \A k \in 1..Len(cuts) :
    Len(cuts[k].input) <= cuts[k].limit => cuts[k].output = cuts[k].input

\* C6: at every truncation site, applying the truncation of the site to its
\* own result gives that result again.
C6_CutIdempotent ==
  \A k \in 1..Len(cuts) :
    SiteCut(cuts[k].site, cuts[k].output) = cuts[k].output

\* the statement that derives the display labels has run
LabelsDerived ==
  \/ script = "groups" /\ chart_data # <<>>
  \/ script = "mcpchart"
       /\ pc \in {"complexity", "scatter", "layout", "write", "done"}
  \/ script = "rpm"
       /\ pc \in {"sort", "colors", "bar", "legend", "layout", "write", "done"}

\* C7: deriving a display label leaves the name field it is derived from as
\* it was (user_group; Server Name, Key Features, Best Use Cases; Model), in
\* the dataset and in the table made from it; the shortened text is held by
\* a field of its own (group; Server_Short, Features_Short, Use_Cases_Short;
\* Short_Model).
C7_LabelsLeaveRecords ==
  /\ script = "groups" =>
       /\ \A k \in 1..Len(data) : data[k]["user_group"] = lit[k]["user_group"]
       /\ \A k \in 1..Len(chart_data) :
            /\ chart_data[k]["full_group"] = lit[k]["user_group"]
            /\ chart_data[k]["group"] = cuts[3 * k - 2].output
  /\ script = "mcpchart" =>
       /\ \A k \in 1..Len(data) :
            \A c \in {"Server Name", "Key Features", "Best Use Cases"} :
              data[k][c] = lit[k][c]
       /\ \A k \in 1..Len(df.rows) :
            \A c \in {"Server Name", "Key Features", "Best Use Cases"} :
              df.rows[k][c] = lit[k][c]
       /\ LabelsDerived =>
            \A k \in 1..Len(df.rows) :
              /\ df.rows[k]["Server_Short"] = cuts[k].output
              /\ df.rows[k]["Features_Short"] = cuts[Len(df.rows) + k].output
              /\ df.rows[k]["Use_Cases_Short"] = cuts[2 * Len(df.rows) + k].output
  /\ script = "rpm" =>
       /\ \A k \in 1..Len(data) : data[k]["Model"] = lit[k]["Model"]
       /\ \A k \in 1..Len(df.rows) :
            df.rows[k]["Model"] = lit[df.index[k] + 1]["Model"]
       /\ LabelsDerived =>
            \A k \in 1..Len(df.rows) :
              df.rows[k]["Short_Model"] = ShortModel(lit[df.index[k] + 1]["Model"])

C7_Witness ==
  /\ script = "mcpchart" /\ pc = "done" /\ lit = McpChartData
  /\ df.rows[4]["Server Name"] = "Memory/Knowledge Graph"
  /\ df.rows[4]["Server_Short"] = "Memory/Knowledg"
  /\ Len(df.rows[1]["Key Features"]) = 72
  /\ Len(df.rows[1]["Features_Short"]) = 53

\* C8: at the end of a run the dataset literal, with every record in it, is
\* equal to what it was right after its construction.
C8_LiteralUnchanged == pc = "done" => data = lit

\* the points (trace, position) that draw record k of the dataset (k from 1)
Draws(k) ==
  UNION { { <<t, p>> : p \in { q \in 1..Len(fig.data[t].index) :
                                 fig.data[t].index[q] = k - 1 } } :
            t \in 1..Len(fig.data) }

\* the colour of point tp = <<trace, position>>: marker_color is one colour
\* per point in chart_script.py and one colour per trace in chart_script_1.py
PointColor(tp) ==
  IF script = "rpm" THEN fig.data[tp[1]].marker_color[tp[2]]
  ELSE fig.data[tp[1]].marker_color

KnownStatuses == {"Current", "Deprecated", "Limited"}

\* C9: in the status-coloured charts every record of the dataset is drawn
\* exactly once, records of the same Status in the same colour; a record
\* whose Status is not a known value is drawn too, and does not make the
\* script fail.
C9_EveryRecordDrawn ==
  script \in {"rpm", "tpm"} =>
    /\ (\E k \in 1..Len(lit) : lit[k]["Status"] \notin KnownStatuses)
          => pc # "failed"
    /\ pc \in {"write", "done"} =>
         /\ \A k \in 1..Len(lit) : Cardinality(Draws(k)) = 1
         /\ \A a \in 1..Len(lit) : \A b \in 1..Len(lit) :
              lit[a]["Status"] = lit[b]["Status"] =>
                \A x \in Draws(a) : \A y \in Draws(b) :
                  PointColor(x) = PointColor(y)

\* C10: wherever colours are taken by position from a palette, the k-th
\* category (from 0) gets palette[k mod len(palette)]: the lookup succeeds
\* and wraps around when the categories outnumber the palette.  In
\* chart_script (3).py no pass fails at colors[i] and the k-th row has the
\* colour k mod 4; in chart_script (2).py position k of every stage has the
\* colour k mod 5; in the scatter plot the k-th category has the colour
\* k mod 10.
C10_PaletteCyclic ==
  /\ script = "groups" =>
       /\ \A k \in 1..Len(chart_data) :
            chart_data[k]["color"] = GroupsColors[((k - 1) % Len(GroupsColors)) + 1]
       /\ (pc = "failed" /\ err = "IndexError") =>
            Len(Split(data[i + 1]["demographics"], ",")) < 2
  /\ (script = "sankey" /\ pc \in {"figure", "layout", "write", "done"}) =>
       /\ Len(node_colors) = 3 * Len(input_types)
       /\ \A s \in 0..2 : \A k \in 0..(Len(input_types) - 1) :
            node_colors[s * Len(input_types) + k + 1]
              = SankeyColors[(k % Len(SankeyColors)) + 1]
  /\ (script = "mcpchart" /\ pc \in {"layout", "write", "done"}) =>
       /\ Len(fig.data) = Len(Distinct(Column(df, "Category")))
       /\ \A c \in 1..Len(fig.data) :
            fig.data[c].marker_color = McpPalette[((c - 1) % Len(McpPalette)) + 1]

(***************************************************************************)
(* Claims about the parsing of the demographics text.                      *)
(***************************************************************************)
\* the record at position k of data has been passed by the processing loop
GroupProcessed(k) == script = "groups" /\ k \in 1..Len(chart_data)

\* C11: for a demographics text "Ages L-H, A-B members", with or without
\* the "Ages " prefix, the first pair is parsed as the age range (low L,
\* high H) and the second as the member range (A, B); the row appended for
\* the record holds median_age = (L + H) / 2 and the log10 of the member
\* midpoint (A + B) / 2, and the loop does not stop at the record because
\* of its text; "16-34, 50-5000 members" gives 16, 34 and the midpoint 25.
C11_RangesParsed ==
  script = "groups" =>
    \A k \in 1..Len(data), p \in DemographicsPrefixes, r \in DemographicsRanges :
      data[k]["demographics"] = Demographics(p, r) =>
        /\ PairLow(AgeRange(data[k])) = r[1]
        /\ PairHigh(AgeRange(data[k])) = r[2]
        /\ PairLow(MemberRange(data[k])) = r[3]
        /\ PairHigh(MemberRange(data[k])) = r[4]
        /\ GroupProcessed(k) =>
             /\ chart_data[k]["median_age"] = Quotient(r[1] + r[2], 2)
             /\ chart_data[k]["member_size_scaled"] =
                  [log10 |-> Quotient(r[3] + r[4], 2)]
             /\ r = <<16, 34, 50, 5000>> =>
                  chart_data[k]["median_age"].num
                    = 25 * chart_data[k]["median_age"].den
        /\ (pc = "failed" /\ i = k - 1) =>
             (err = "IndexError" /\ i >= Len(GroupsColors))

\* a run has passed a record with the "Ages " prefix and one without it
C11_Witness ==
  /\ script = "groups" /\ pc = "done"
  /\ \E k \in 1..Len(chart_data) :
       data[k]["demographics"] = Demographics("Ages ", <<16, 34, 50, 5000>>)
  /\ \E k \in 1..Len(chart_data) :
       data[k]["demographics"] = Demographics("", <<16, 34, 50, 5000>>)

\* C12: when the demographics text of a record is malformed (no hyphen,
\* more than one hyphen, a non-numeric token, or no second comma-separated
\* part), the processing loop raises an error at that record: neither that
\* record nor a later one is processed, the script never leaves the loop
\* normally and discord_user_groups.png is not written.
C12_MalformedAborts ==
  script = "groups" =>
    \A k \in 1..Len(data) :
      data[k]["demographics"] \in MalformedDemographics =>
        /\ Len(chart_data) < k
        /\ i < k
        /\ pc \in {"process", "failed"}
        /\ files = <<>>
        /\ fig = NoFig /\ rendered = <<>>
        /\ (pc = "failed" /\ i = k - 1) => err \in {"ValueError", "IndexError"}

\* the loop has stopped at a malformed record that has records before it
\* and after it
C12_Witness ==
  /\ script = "groups" /\ pc = "failed"
  /\ i \in 1..(Len(data) - 2)
  /\ data[i + 1]["demographics"] \in MalformedDemographics
  /\ Len(chart_data) = i
  /\ files = <<>>

(***************************************************************************)
(* archive/script_1 (2).py: the capabilities report.                       *)
(*                                                                         *)
(* A Python value of the nested literals is a record [t, s, n, items]: t   *)
(* is "str", "int", "list" or "dict"; s is the text of a str; n the value  *)
(* of an int; items the entries of a list or of a dict, in order, each     *)
(* [key, value] (a list entry has the key "").  Characters outside ASCII   *)
(* are written in ASCII ("*" for the bullet, "->" for the arrow).          *)
(***************************************************************************)
Str(x) == [t |-> "str", s |-> x, n |-> 0, items |-> <<>>]

IntValue(k) == [t |-> "int", s |-> "", n |-> k, items |-> <<>>]

Item(k, v) == [key |-> k, value |-> v]

List(vs) ==
  [t |-> "list", s |-> "", n |-> 0,
   items |-> [k \in 1..Len(vs) |-> Item("", vs[k])]]

StrList(xs) == List([k \in 1..Len(xs) |-> Str(xs[k])])

Dict(its) == [t |-> "dict", s |-> "", n |-> 0, items |-> its]

\* the keys of a dict, in order
Keys(d) == [k \in 1..Len(d.items) |-> d.items[k].key]

\* key in d
HasKey(d, key) == d.t = "dict" /\ \E k \in 1..Len(d.items) : d.items[k].key = key

\* d[key]
Get(d, key) ==
  d.items[CHOOSE k \in 1..Len(d.items) : d.items[k].key = key].value

\* repr(v): what an f-string shows for a list or a dict (no text of the
\* literals holds a quote or a backslash)
RECURSIVE Repr(_)
Repr(v) ==
  CASE v.t = "str"  -> "'" \o v.s \o "'"
    [] v.t = "int"  -> ToStr(v.n)
    [] v.t = "list" ->
         "[" \o Join(", ", [k \in 1..Len(v.items) |-> Repr(v.items[k].value)]) \o "]"
    [] v.t = "dict" ->
         "{" \o Join(", ", [k \in 1..Len(v.items) |->
                              "'" \o v.items[k].key \o "': "
                                  \o Repr(v.items[k].value)]) \o "}"

\* f"{v}": str(v)
Format(v) == IF v.t = "str" THEN v.s ELSE Repr(v)

LowerLetters == "abcdefghijklmnopqrstuvwxyz"

UpperLetters == "ABCDEFGHIJKLMNOPQRSTUVWXYZ"

\* str.upper(), one character
UpperChar(c) ==
  IF \E k \in 1..26 : CharAt(LowerLetters, k) = c
    THEN CharAt(UpperLetters, CHOOSE k \in 1..26 : CharAt(LowerLetters, k) = c)
    ELSE c

\* str.upper()
RECURSIVE Upper(_)
Upper(s) ==
  IF s = "" THEN "" ELSE UpperChar(CharAt(s, 1)) \o Upper(SubSeq(s, 2, Len(s)))

\* What a run of print statements gives: the lines printed, and the
\* exception that ended the run of statements ("none" when it completed).
Printed(lines) == [lines |-> lines, err |-> "none"]

Raised(e) == [lines |-> <<>>, err |-> e]

\* the statements of a, then those of b unless a raised
Then(a, b) ==
  IF a.err # "none" THEN a
  ELSE [lines |-> a.lines \o b.lines, err |-> b.err]

\* iter(v): the values a loop over v, or str.join(v), goes through (an int
\* is not iterable: TypeError)
Iter(v) ==
  CASE v.t = "list" -> [k \in 1..Len(v.items) |-> v.items[k].value]
    [] v.t = "dict" -> [k \in 1..Len(v.items) |-> Str(v.items[k].key)]
    [] v.t = "str"  -> [k \in 1..Len(v.s) |-> Str(CharAt(v.s, k))]
    [] OTHER        -> <<>>

\* print(f"{prefix}{', '.join(v)}"): str.join raises TypeError for an item
\* that is not a str
JoinLine(prefix, v) ==
  IF v.t # "int" /\ \A k \in 1..Len(Iter(v)) : Iter(v)[k].t = "str"
    THEN Printed(<< prefix \o Join(", ", [k \in 1..Len(Iter(v)) |-> Iter(v)[k].s]) >>)
    ELSE Raised("TypeError")

\* f"\n   {category.upper().replace('_', ' ')}:"
Heading(category) == "\n   " \o Replace(Upper(category), "_", " ") \o ":"

\* section 1, the loop over value.items()
RECURSIVE Section1SubItems(_, _)
Section1SubItems(items, k) ==
  IF k > Len(items) THEN Printed(<<>>)
  ELSE Then(IF items[k].value.t = "list"
              THEN JoinLine("         - " \o items[k].key \o ": ", items[k].value)
              ELSE Printed(<< "         - " \o items[k].key \o ": "
                               \o Format(items[k].value) >>),
            Section1SubItems(items, k + 1))

\* section 1, the loop over details.items()
RECURSIVE Section1Items(_, _)
Section1Items(items, k) ==
  IF k > Len(items) THEN Printed(<<>>)
  ELSE Then(CASE items[k].value.t = "list" ->
                   JoinLine("     " \o Bullet \o " " \o items[k].key \o ": ",
                            items[k].value)
              [] items[k].value.t = "dict" ->
                   Then(Printed(<< "     " \o Bullet \o " " \o items[k].key \o ":" >>),
                        Section1SubItems(items[k].value.items, 1))
              [] OTHER ->
                   Printed(<< "     " \o Bullet \o " " \o items[k].key \o ": "
                               \o Format(items[k].value) >>),
            Section1Items(items, k + 1))

\* section 1, one pass of the loop over gemini_capabilities.items()
Section1Category(it) ==
  Then(Printed(<< Heading(it.key) >>),
       IF it.value.t = "dict" THEN Section1Items(it.value.items, 1)
       ELSE Printed(<<>>))

\* section 2, the loop over details.items()
Section2Items(items) ==
  Printed([k \in 1..Len(items) |->
             "     " \o Bullet \o " " \o items[k].key \o ": "
                     \o Format(items[k].value)])

\* section 2, one pass of the loop over discord_integration.items()
Section2Category(it) ==
  Then(Printed(<< Heading(it.key) >>),
       CASE it.value.t = "dict" -> Section2Items(it.value.items)
         [] it.value.t = "list" -> JoinLine("     " \o Bullet \o " ", it.value)
         [] OTHER -> Printed(<< "     " \o Bullet \o " " \o Format(it.value) >>))

\* section 3, the loop over enumerate(details['example_workflow'], 1)
WorkflowLines(steps) ==
  IF steps.t = "int" THEN Raised("TypeError")
  ELSE Printed([k \in 1..Len(Iter(steps)) |->
                  "       " \o ToStr(k) \o ". " \o Format(Iter(steps)[k])])

\* details[key] raises TypeError unless details is a dict, KeyError unless
\* it has the key
LookupError(details, key) ==
  IF details.t # "dict" THEN "TypeError"
  ELSE IF ~HasKey(details, key) THEN "KeyError"
  ELSE "none"

\* section 3, one pass of the loop over use_cases.items()
Section3Case(it) ==
  Then(Printed(<< Heading(it.key) >>),
  Then(IF LookupError(it.value, "description") # "none"
         THEN Raised(LookupError(it.value, "description"))
         ELSE Printed(<< "     Description: "
                          \o Format(Get(it.value, "description")) >>),
  Then(IF LookupError(it.value, "capabilities") # "none"
         THEN Raised(LookupError(it.value, "capabilities"))
         ELSE JoinLine("     Capabilities: ", Get(it.value, "capabilities")),
  Then(Printed(<< "     Example Workflow:" >>),
       IF LookupError(it.value, "example_workflow") # "none"
         THEN Raised(LookupError(it.value, "example_workflow"))
         ELSE WorkflowLines(Get(it.value, "example_workflow"))))))

\* gemini_capabilities  (archive/script_1 (2).py, lines 6-82)
GeminiCapabilities ==
  Dict(<<
    Item("image_processing", Dict(<<
      Item("formats_supported", StrList(<<"PNG",
                "JPEG",
                "WEBP",
                "HEIC",
                "HEIF">>)),
      Item("max_files_per_request", IntValue(3600)),
      Item("size_limits", Dict(<<
        Item("inline_data", Str("20MB total request")),
        Item("file_api", Str("2GB per file")) >>)),
      Item("token_costs", Dict(<<
        Item("small_images", Str("258 tokens (<=384px)")),
        Item("large_images", Str("258 tokens per 768x768 tile")) >>)),
      Item("capabilities", StrList(<<"Image captioning",
                "Visual question answering",
                "Object detection with bounding boxes",
                "Image segmentation (Gemini 2.5+)",
                "Image classification",
                "Text extraction from images",
                "Multi-image comparison">>)) >>)),
    Item("audio_processing", Dict(<<
      Item("supported_models", StrList(<<"Gemini 2.5 Flash-Lite",
                "Gemini 2.5 Flash",
                "Gemini 2.5 Pro",
                "Gemini 2.0 Flash",
                "Gemini 2.0 Flash-Lite">>)),
      Item("live_api", Dict(<<
        Item("features", StrList(<<"Real-time bidirectional audio streaming",
                  "Voice Activity Detection",
                  "Native audio output (24kHz)",
                  "Emotion-aware dialogue",
                  "Audio input format: 16-bit PCM, 16kHz, mono">>)) >>)),
      Item("capabilities", StrList(<<"Speech transcription",
                "Audio content analysis",
                "Real-time voice interactions",
                "Multi-language support">>)) >>)),
    Item("video_processing", Dict(<<
      Item("capabilities", StrList(<<"Video summarization",
                "Scene analysis",
                "Visual and audio understanding",
                "Timestamp-based queries",
                "Frame extraction and analysis">>)),
      Item("customization", StrList(<<"Custom frame rate sampling (FPS)",
                "Video clipping with start/end offsets",
                "Support for videos up to 90 minutes">>)),
      Item("file_limits", Dict(<<
        Item("inline", Str("20MB")),
        Item("file_api", Str("2GB")) >>)) >>)),
    Item("document_processing", Dict(<<
      Item("pdf_support", Dict(<<
        Item("max_pages", IntValue(1000)),
        Item("token_limit", Str("2 million tokens")),
        Item("capabilities", StrList(<<"Multi-column layout understanding",
                  "Table transcription",
                  "Chart and diagram interpretation",
                  "Handwritten text recognition">>)) >>)) >>)) >>)

\* discord_integration  (archive/script_1 (2).py, lines 85-108)
DiscordIntegration ==
  Dict(<<
    Item("file_size_limits", Dict(<<
      Item("free_users", Str("25MB")),
      Item("nitro_classic", Str("50MB")),
      Item("nitro", Str("500MB (boosted servers)")) >>)),
    Item("supported_file_types", StrList(<<"JPEG",
              "PNG",
              "GIF",
              "MP4",
              "MOV",
              "MP3",
              "WAV",
              "PDF",
              "DOC",
              "TXT">>)),
    Item("api_features", Dict(<<
      Item("slash_commands", Str("Structured interactions")),
      Item("file_attachments", Str("Direct file processing")),
      Item("message_threading", Str("Context preservation")),
      Item("ephemeral_responses", Str("Private interactions")),
      Item("rich_embeds", Str("Enhanced formatting")) >>)),
    Item("multimodal_workflows", StrList(<<"Upload -> Analyze -> Respond",
              "Voice commands in voice channels",
              "Document Q&A sessions",
              "Image description and analysis",
              "Video content summarization">>)) >>)

\* use_cases  (archive/script_1 (2).py, lines 111-172)
UseCases ==
  Dict(<<
    Item("customer_support", Dict(<<
      Item("description", Str("AI-powered support with multimodal input handling")),
      Item("capabilities", StrList(<<"Screenshot analysis for troubleshooting",
                "Product image identification",
                "Document verification",
                "Voice complaint processing">>)),
      Item("example_workflow", StrList(<<"User uploads error screenshot",
                "Bot analyzes image using Gemini vision",
                "Identifies error type and context",
                "Provides step-by-step solution with visual aids">>)) >>)),
    Item("educational_assistant", Dict(<<
      Item("description", Str("Learning support across multiple content types")),
      Item("capabilities", StrList(<<"PDF textbook analysis",
                "Homework help from photos",
                "Video lecture summarization",
                "Audio note transcription">>)),
      Item("example_workflow", StrList(<<"Student uploads homework photo",
                "Bot extracts and understands math problems",
                "Provides step-by-step explanations",
                "Offers additional practice problems">>)) >>)),
    Item("content_moderation", Dict(<<
      Item("description", Str("Intelligent content analysis and filtering")),
      Item("capabilities", StrList(<<"Image content safety analysis",
                "Audio content transcription and filtering",
                "Document inappropriate content detection",
                "Multi-language content understanding">>)),
      Item("example_workflow", StrList(<<"User uploads image to server",
                "Bot analyzes for inappropriate content",
                "Applies content filtering rules",
                "Takes appropriate moderation action">>)) >>)),
    Item("creative_collaboration", Dict(<<
      Item("description", Str("AI-assisted creative projects and feedback")),
      Item("capabilities", StrList(<<"Art critique and suggestions",
                "Video editing assistance",
                "Music composition feedback",
                "Story and script analysis">>)),
      Item("example_workflow", StrList(<<"Artist shares work-in-progress image",
                "Bot provides composition analysis",
                "Suggests improvements and techniques",
                "References relevant art styles or examples">>)) >>)) >>)

\* rate_strategies  (archive/script_1 (2).py, lines 258-265)
RateStrategies ==
  StrList(<<"Queue system for concurrent requests",
            "Smart model selection based on content complexity",
            "Context caching for repeated queries",
            "User tier management (free vs premium)",
            "Request batching for multiple files",
            "Graceful degradation during peak usage">>)

\* benefits  (archive/script_1 (2).py, lines 271-290)
Benefits ==
  Dict(<<
    Item("User Experience", StrList(<<"Natural interaction through multiple input types",
              "Reduced typing for complex queries",
              "Visual context understanding",
              "Accessibility improvements">>)),
    Item("Functionality", StrList(<<"Rich content analysis capabilities",
              "Cross-modal understanding",
              "Complex problem solving",
              "Educational and professional applications">>)),
    Item("Engagement", StrList(<<"Interactive multimedia conversations",
              "Creative collaboration features",
              "Real-time voice interactions",
              "Personalized content responses">>)) >>)

\* the text of section 5  (archive/script_1 (2).py, lines 229-255)
ArchitectureText ==
  "\n"
  \o "   MULTIMODAL DISCORD BOT FLOW:\n"
  \o "   \n"
  \o "   1. DISCORD INPUT PROCESSING\n"
  \o "      |-- Slash Command Detection\n"
  \o "      |-- File Attachment Validation  \n"
  \o "      |-- Size/Format Checking\n"
  \o "      +-- User Permission Verification\n"
  \o "      \n"
  \o "   2. GEMINI API INTEGRATION\n"
  \o "      |-- File Processing (inline vs File API)\n"
  \o "      |-- Model Selection (based on content type)\n"
  \o "      |-- Rate Limit Management\n"
  \o "      +-- Context Window Optimization\n"
  \o "      \n"
  \o "   3. RESPONSE GENERATION\n"
  \o "      |-- Multimodal Analysis\n"
  \o "      |-- Response Formatting\n"
  \o "      |-- Discord Embed Creation\n"
  \o "      +-- Follow-up Suggestions\n"
  \o "      \n"
  \o "   4. ERROR HANDLING & FALLBACKS\n"
  \o "      |-- Rate Limit Backoff\n"
  \o "      |-- File Size Reduction\n"
  \o "      |-- Format Conversion\n"
  \o "      +-- Graceful Degradation\n"
  \o ""
\* discord_formats, gemini_formats
DiscordFormats == {"JPEG", "PNG", "GIF", "MP4", "MOV", "MP3", "WAV", "PDF"}

GeminiFormats ==
  {"PNG", "JPEG", "WEBP", "HEIC", "HEIF", "MP4", "MP3", "WAV", "PDF"}

\* the characters of the format names, in code-point order
Alphabet == Digits \o UpperLetters \o LowerLetters

CodeOf(c) == CHOOSE k \in 1..Len(Alphabet) : CharAt(Alphabet, k) = c

\* a < b for two strs
RECURSIVE StrLess(_, _)
StrLess(a, b) ==
  IF b = "" THEN FALSE
  ELSE IF a = "" THEN TRUE
  ELSE IF CharAt(a, 1) = CharAt(b, 1)
         THEN StrLess(SubSeq(a, 2, Len(a)), SubSeq(b, 2, Len(b)))
         ELSE CodeOf(CharAt(a, 1)) < CodeOf(CharAt(b, 1))

\* sorted(S) for a set of strs
RECURSIVE Sorted(_)
Sorted(S) ==
  IF S = {} THEN <<>>
  ELSE LET least == CHOOSE x \in S : \A y \in S \ {x} : StrLess(x, y)
       IN  <<least>> \o Sorted(S \ {least})

\* the orders in which iterating a set of strs may give its elements: the
\* order follows the hashes of the strs, which differ from run to run
IterationOrders(S) ==
  { f \in [1..Cardinality(S) -> S] : \A x \in S : \E k \in DOMAIN f : f[k] = x }

\* the capability mappings a run may start from: the literal, the mapping
\* {"A": {"B": [1, 2], "C": 3}}, one with strs in the list and a mapping
\* below, and one nested four deep
GeminiCapabilitiesChoices ==
  { GeminiCapabilities,
    Dict(<< Item("A", Dict(<< Item("B", List(<< IntValue(1), IntValue(2) >>)),
                              Item("C", IntValue(3)) >>)) >>),
    Dict(<< Item("A", Dict(<< Item("B", StrList(<< "1", "2" >>)),
                              Item("C", IntValue(3)),
                              Item("D", Dict(<< Item("E", Str("x")),
                                                Item("F", StrList(<< "y", "z" >>)),
                                                Item("G", IntValue(7)) >>)) >>)) >>),
    Dict(<< Item("A", Dict(<< Item("B", Dict(<< Item("C", Dict(<<
                Item("D", Str("x")) >>)) >>)) >>)) >>) }

DiscordIntegrationChoices ==
  { DiscordIntegration,
    Dict(<< Item("limits", Dict(<< Item("free", Dict(<< Item("size", Str("25MB")) >>)),
                                   Item("types", StrList(<< "PNG", "GIF" >>)) >>)),
            Item("note", Str("x")) >>) }

UseCasesChoices ==
  { UseCases,
    Dict(<< Item("support", Dict(<< Item("description", Str("d")),
                                    Item("capabilities", StrList(<< "a" >>)) >>)) >>) }

ReportInit ==
  /\ script = "report"
  /\ pc = "title"
  /\ input_types = <<>>
  /\ \E g \in GeminiCapabilitiesChoices, d \in DiscordIntegrationChoices,
        u \in UseCasesChoices :
       data = [gemini_capabilities |-> g, discord_integration |-> d,
               use_cases |-> u]

\* what the report script never touches
reportFrame == <<script, prev, j, data, lit, sankeyVars, chart_data, colors,
                 all_servers, df, cuts, fig, rendered, files, csv, df2>>

\* print("=== ... ===\n"); print("1. CORE MULTIMODAL CAPABILITIES:")
ReportTitle ==
  /\ script = "report" /\ pc = "title"
  /\ out' = out \o << "=== GEMINI API MULTIMODAL CAPABILITIES FOR DISCORD BOTS ===\n",
                      "1. CORE MULTIMODAL CAPABILITIES:" >>
  /\ pc' = "section1"
  /\ UNCHANGED <<err, i, reportFrame>>

\* for category, details in gemini_capabilities.items(): one pass, or the
\* end of the loop and the heading of section 2
ReportSection1 ==
  /\ script = "report" /\ pc = "section1"
  /\ IF i < Len(data.gemini_capabilities.items)
       THEN LET r == Section1Category(data.gemini_capabilities.items[i + 1])
            IN  /\ out' = out \o r.lines
                /\ err' = r.err
                /\ pc' = IF r.err = "none" THEN pc ELSE "failed"
                /\ i' = IF r.err = "none" THEN i + 1 ELSE i
       ELSE /\ out' = Append(out, "\n\n2. DISCORD INTEGRATION SPECIFICS:")
            /\ pc' = "section2"
            /\ i' = 0
            /\ UNCHANGED err
  /\ UNCHANGED reportFrame

\* for category, details in discord_integration.items(): one pass, or the
\* end of the loop and the heading of section 3
ReportSection2 ==
  /\ script = "report" /\ pc = "section2"
  /\ IF i < Len(data.discord_integration.items)
       THEN LET r == Section2Category(data.discord_integration.items[i + 1])
            IN  /\ out' = out \o r.lines
                /\ err' = r.err
                /\ pc' = IF r.err = "none" THEN pc ELSE "failed"
                /\ i' = IF r.err = "none" THEN i + 1 ELSE i
       ELSE /\ out' = Append(out, "\n\n3. PRACTICAL USE CASES:")
            /\ pc' = "section3"
            /\ i' = 0
            /\ UNCHANGED err
  /\ UNCHANGED reportFrame

\* for use_case, details in use_cases.items(): one pass, or the end of the
\* loop
ReportSection3 ==
  /\ script = "report" /\ pc = "section3"
  /\ IF i < Len(data.use_cases.items)
       THEN LET r == Section3Case(data.use_cases.items[i + 1])
            IN  /\ out' = out \o r.lines
                /\ err' = r.err
                /\ pc' = IF r.err = "none" THEN pc ELSE "failed"
                /\ i' = IF r.err = "none" THEN i + 1 ELSE i
       ELSE /\ pc' = "section4"
            /\ i' = 0
            /\ UNCHANGED <<out, err>>
  /\ UNCHANGED reportFrame

\* section 4 with the two set differences taken the other way round
ReportSection4Swapped ==
  /\ script = "report" /\ pc = "section4"
  /\ \E donly \in IterationOrders(GeminiFormats \ DiscordFormats),
        gonly \in IterationOrders(DiscordFormats \ GeminiFormats) :
       out' = out \o
         << "\n\n4. DISCORD vs GEMINI FILE HANDLING COMPARISON:",
            "\n   FILE SIZE LIMITS:",
            "     Discord Free: 25MB -> Gemini Inline: 20MB OK Compatible",
            "     Discord Nitro: 500MB -> Gemini File API: 2GB OK Compatible",
            "     Strategy: Use File API for large uploads, inline for small files",
            "\n   SUPPORTED FORMATS:",
            "     Compatible formats: "
               \o Join(", ", Sorted(DiscordFormats \cap GeminiFormats)),
            "     Discord-only: " \o Join(", ", donly),
            "     Gemini-only: " \o Join(", ", gonly) >>
  /\ pc' = "section5"
  /\ UNCHANGED <<err, i, reportFrame>>

\* section 4: the fixed lines and the three lines of formats
ReportSection4 ==
  /\ script = "report" /\ pc = "section4"
  /\ \E donly \in IterationOrders(DiscordFormats \ GeminiFormats),
        gonly \in IterationOrders(GeminiFormats \ DiscordFormats) :
       out' = out \o
         << "\n\n4. DISCORD vs GEMINI FILE HANDLING COMPARISON:",
            "\n   FILE SIZE LIMITS:",
            "     Discord Free: 25MB -> Gemini Inline: 20MB OK Compatible",
            "     Discord Nitro: 500MB -> Gemini File API: 2GB OK Compatible",
            "     Strategy: Use File API for large uploads, inline for small files",
            "\n   SUPPORTED FORMATS:",
            "     Compatible formats: "
               \o Join(", ", Sorted(DiscordFormats \cap GeminiFormats)),
            "     Discord-only: " \o Join(", ", donly),
            "     Gemini-only: " \o Join(", ", gonly) >>
  /\ pc' = "section5"
  /\ UNCHANGED <<err, i, reportFrame>>

\* section 5: the heading and the architecture text
ReportSection5 ==
  /\ script = "report" /\ pc = "section5"
  /\ out' = out \o << "\n\n5. IMPLEMENTATION ARCHITECTURE:", ArchitectureText >>
  /\ pc' = "section6"
  /\ UNCHANGED <<err, i, reportFrame>>

\* section 6: for i, strategy in enumerate(rate_strategies, 1)
ReportSection6 ==
  /\ script = "report" /\ pc = "section6"
  /\ out' = out \o << "\n6. RATE LIMIT OPTIMIZATION STRATEGIES:" >>
                \o [k \in 1..Len(RateStrategies.items) |->
                      "   " \o ToStr(k) \o ". " \o RateStrategies.items[k].value.s]
  /\ pc' = "section7"
  /\ UNCHANGED <<err, i, reportFrame>>

\* the lines of one pass of the loop over benefits.items()
BenefitLines(it) ==
  << "\n   " \o Upper(it.key) \o ":" >>
    \o [k \in 1..Len(it.value.items) |->
          "     " \o Bullet \o " " \o it.value.items[k].value.s]

\* section 7: for category, items in benefits.items(): one pass, or the end
\* of the script
ReportSection7 ==
  /\ script = "report" /\ pc = "section7"
  /\ IF i < Len(Benefits.items)
       THEN /\ out' = out \o (IF i = 0
                                THEN << "\n7. MULTIMODAL ENHANCEMENT BENEFITS:" >>
                                ELSE <<>>)
                          \o BenefitLines(Benefits.items[i + 1])
            /\ i' = i + 1
            /\ pc' = pc
       ELSE /\ pc' = "done"
            /\ i' = 0
            /\ out' = out
  /\ UNCHANGED <<err, reportFrame>>

(***************************************************************************)
(* Claims about the report printer.                                        *)
(***************************************************************************)
\* the line has been printed
InOut(line) == \E k \in 1..Len(out) : out[k] = line

\* s ends with suffix
EndsWith(s, suffix) ==
  Len(suffix) <= Len(s) /\ SubSeq(s, Len(s) - Len(suffix) + 1, Len(s)) = suffix

\* the run stopped inside section 1 / inside section 1 or 2
Section1Failed ==
  pc = "failed" /\ ~InOut("\n\n2. DISCORD INTEGRATION SPECIFICS:")

Section2Failed ==
  pc = "failed" /\ ~InOut("\n\n3. PRACTICAL USE CASES:")

\* section 1 has passed the c-th category
Section1Passed(c) ==
  /\ script = "report"
  /\ pc # "title" /\ ~Section1Failed
  /\ pc = "section1" => i >= c

\* section 2 has passed the c-th category
Section2Passed(c) ==
  /\ script = "report"
  /\ pc \notin {"title", "section1"} /\ ~Section2Failed
  /\ pc = "section2" => i >= c

\* "key: value" for a scalar, "key: item1, item2, .." for a list of scalars
EntryText(it) ==
  IF it.value.t = "list"
    THEN it.key \o ": " \o Join(", ", [k \in 1..Len(it.value.items) |->
                                         Format(it.value.items[k].value)])
    ELSE it.key \o ": " \o Format(it.value)

\* C13: for a two-level nested mapping, section 1 of the report prints a
\* line for each top-level key and below it, indented deeper, one entry per
\* inner key: "key: value" for a scalar, "key: item1, item2, .." for a list
\* of scalars, strs or not (as "B: 1, 2" for [1, 2]), and the key alone
\* followed by deeper-indented entries for a mapping; the printer does not
\* stop with an error on such a mapping.
C13_TwoLevelReport ==
  script = "report" =>
    /\ ~(Section1Failed /\ err = "TypeError")
    /\ \A c \in 1..Len(data.gemini_capabilities.items) :
         Section1Passed(c) =>
           LET cat == data.gemini_capabilities.items[c]
           IN  /\ InOut(Heading(cat.key))
               /\ \A e \in 1..Len(cat.value.items) :
                    LET it == cat.value.items[e]
                    IN  IF it.value.t # "dict"
                          THEN InOut("     " \o Bullet \o " " \o EntryText(it))
                          ELSE /\ InOut("     " \o Bullet \o " " \o it.key \o ":")
                               /\ \A f \in 1..Len(it.value.items) :
                                    it.value.items[f].value.t # "dict" =>
                                      InOut("         - "
                                              \o EntryText(it.value.items[f]))

\* the entries of a mapping at every depth: its own and those of the
\* mappings below it
RECURSIVE EntriesBelow(_)
EntriesBelow(v) ==
  IF v.t # "dict" THEN {}
  ELSE UNION { {v.items[k]} \cup EntriesBelow(v.items[k].value) :
                 k \in 1..Len(v.items) }

\* C14: for a mapping nested to any depth the report printer terminates
\* and expands every mapping below it into entries of its own: once a
\* section has passed a category, every scalar or list entry at any depth
\* below it has a line "key: value" of its own, and no mapping is printed
\* as one opaque value.
C14_EveryDepthExpanded ==
  script = "report" =>
    /\ \A c \in 1..Len(data.gemini_capabilities.items) :
         Section1Passed(c) =>
           \A it \in EntriesBelow(data.gemini_capabilities.items[c].value) :
             it.value.t # "dict" =>
               \E k \in 1..Len(out) : EndsWith(out[k], " " \o EntryText(it))
    /\ \A c \in 1..Len(data.discord_integration.items) :
         Section2Passed(c) =>
           \A it \in EntriesBelow(data.discord_integration.items[c].value) :
             it.value.t \in {"str", "int"} =>
               \E k \in 1..Len(out) : EndsWith(out[k], " " \o EntryText(it))

(***************************************************************************)
(* archive/script.py and archive/script (3).py: the CSV tables.            *)
(*                                                                         *)
(* Both scripts build a DataFrame from a dict of columns, print it with    *)
(* to_string and write it with to_csv.                                     *)
(***************************************************************************)
\* the first n entries of every column of d
TakeRows(d, n) == [c \in DOMAIN d |-> SubSeq(d[c], 1, n)]

\* d with the records xs added below its columns
WithRows(d, xs) ==
  [c \in DOMAIN d |-> d[c] \o [k \in 1..Len(xs) |-> xs[k][c]]]

\* d with the last entry of column c left out
DropLast(d, c) ==
  [x \in DOMAIN d |-> IF x = c /\ d[x] # <<>>
                        THEN SubSeq(d[x], 1, Len(d[x]) - 1)
                        ELSE d[x]]

\* the columns of d do not all have the same length
Ragged(d) == \E a, b \in DOMAIN d : Len(d[a]) # Len(d[b])

\* pd.DataFrame(d) for a dict d of columns of one length, whose keys are
\* `columns' in that order
DataFrameOfColumns(d, columns) ==
  LET n == Len(d[columns[1]])
  IN  [ columns |-> columns,
        index   |-> Range(n),
        rows    |-> [k \in 1..n |-> [c \in DOMAIN d |-> d[c][k]]] ]

\* str.rjust
RJust(s, width) == Repeat(" ", width - Len(s)) \o s

\* the text to_string shows for a cell: at most maxw characters, the last
\* three of them dots when the value is longer (maxw = 0: no limit)
Shown(s, maxw) ==
  IF maxw > 0 /\ Len(s) > maxw THEN SubSeq(s, 1, maxw - 3) \o "..." ELSE s

SeqMax(s) == IF s = <<>> THEN 0
             ELSE CHOOSE m \in { s[k] : k \in 1..Len(s) } :
                    \A k \in 1..Len(s) : s[k] <= m

\* the width to_string gives column c
ColumnWidth(frame, c, ints, maxw) ==
  SeqMax(<< Len(c) >> \o
         [k \in 1..Len(frame.rows) |->
            Len(Shown(CellText(frame, k, c, ints), maxw))])

\* df.to_string(index=False, max_colwidth=maxw): the header and one line per
\* row, every column right-justified to its width, columns one space apart
ToStringFrame(frame, ints, maxw) ==
  IF frame.rows = <<>>
    THEN "Empty DataFrame\nColumns: [" \o Join(", ", frame.columns)
           \o "]\nIndex: []"
    ELSE
      Join("\n",
        << Join(" ", [c \in 1..Len(frame.columns) |->
                        RJust(frame.columns[c],
                              ColumnWidth(frame, frame.columns[c], ints, maxw))]) >>
        \o [k \in 1..Len(frame.rows) |->
              Join(" ", [c \in 1..Len(frame.columns) |->
                           RJust(Shown(CellText(frame, k, frame.columns[c], ints), maxw),
                                 ColumnWidth(frame, frame.columns[c], ints, maxw))])])

\* the positions of s from p on that hold the character ch
PositionsOf(s, ch, p) == { q \in p..Len(s) : SubSeq(s, q, q) = ch }

\* the least member of S, or none when S is empty
Least(S, none) == IF S = {} THEN none ELSE CHOOSE m \in S : \A x \in S : m <= x

\* csv.reader on one line, from the field that starts at p: the fields
\* between the commas; a field that starts with a quote runs to its closing
\* quote, a doubled quote inside it standing for one quote
RECURSIVE ParseCsvFrom(_, _, _)
ParseCsvFrom(s, p, acc) ==
  LET quoted == p <= Len(s) /\ SubSeq(s, p, p) = "\""
      quotes == PositionsOf(s, "\"", p + 1)
      close  == Least({ q \in quotes :
                          /\ Cardinality({ x \in quotes : x <= q }) % 2 = 1
                          /\ (q + 1) \notin quotes }, Len(s) + 1)
      end    == Least(PositionsOf(s, ",", IF quoted THEN close + 1 ELSE p),
                      Len(s) + 1)
      field  == IF quoted
                  THEN Replace(SubSeq(s, p + 1, close - 1), "\"\"", "\"")
                         \o SubSeq(s, close + 1, end - 1)
                  ELSE SubSeq(s, p, end - 1)
  IN  IF end > Len(s) THEN Append(acc, field)
      ELSE ParseCsvFrom(s, end + 1, Append(acc, field))

\* a blank line has no field
ParseCsvLine(line) ==
  IF line = "" THEN <<>> ELSE ParseCsvFrom(line, 1, <<>>)

\* data  (archive/script.py, lines 4-21)
LimitsData ==
  ("Model" :>
    << "Gemini 2.5 Pro",
       "Gemini 2.5 Flash",
       "Gemini 2.5 Flash-Lite",
       "Gemini 2.0 Flash",
       "Gemini 2.0 Flash-Lite",
       "Gemini 1.5 Flash",
       "Gemini 1.5 Flash-8B",
       "Gemma 3 & 3n" >> @@
   "RPM (Requests/Min)" :>
    << 5, 10, 15, 15, 30, 15, 15, 30 >> @@
   "TPM (Tokens/Min)" :>
    << "250,000",
       "250,000",
       "250,000",
       "1,000,000",
       "1,000,000",
       "250,000",
       "250,000",
       "15,000" >> @@
   "RPD (Requests/Day)" :>
    << 100, 250, 1000, 200, 200, 50, 50, 14400 >> @@
   "Input Cost" :>
    << "Not Available",
       "Free",
       "Free",
       "Free",
       "Free",
       "Free",
       "Free",
       "Free" >> @@
   "Output Cost" :>
    << "Not Available",
       "Free",
       "Free",
       "Free",
       "Free",
       "Free",
       "Free",
       "Free" >> @@
   "Best For Chatbots" :>
    << "No (Not available on free)",
       "Yes",
       "Yes",
       "Yes",
       "Yes",
       "Yes (Deprecated)",
       "Yes (Deprecated)",
       "Limited (Low TPM)" >>)

\* the keys of data, in order
LimitsDataKeys ==
  << "Model", "RPM (Requests/Min)", "TPM (Tokens/Min)", "RPD (Requests/Day)", "Input Cost", "Output Cost", "Best For Chatbots" >>

\* features  (archive/script.py, lines 36-57)
LimitsFeatures ==
  ("Feature" :>
    << "Free Tier Available",
       "Best Models for Chatbots",
       "Multimodal Support",
       "Context Window",
       "Function Calling",
       "Grounding with Search",
       "Live API Support",
       "Data Usage Policy" >> @@
   "Details" :>
    << "Yes - Multiple models available for free",
       "Gemini 2.5 Flash, 2.0 Flash, 2.0 Flash-Lite",
       "Text, Image, Audio, Video support",
       "Up to 1M tokens (varies by model)",
       "Available on most models",
       "Free tier: 500 requests/day",
       "Available with session limits",
       "Used to improve Google products on free tier" >>)

\* the keys of features, in order
LimitsFeaturesKeys ==
  << "Feature", "Details" >>

\* feature_data  (archive/script (3).py, lines 5-56)
FeatureData ==
  ("Feature Category" :>
    << "Response Style",
       "Response Style",
       "Response Style",
       "Response Style",
       "Memory System",
       "Memory System",
       "Memory System",
       "Memory System",
       "Learning Focus",
       "Learning Focus",
       "Learning Focus",
       "Learning Focus",
       "Fact-Checking",
       "Fact-Checking",
       "Fact-Checking",
       "Fact-Checking",
       "Multimodal Features",
       "Multimodal Features",
       "Multimodal Features",
       "Multimodal Features",
       "Automation Level",
       "Automation Level",
       "Automation Level",
       "Automation Level",
       "Engagement Features",
       "Engagement Features",
       "Engagement Features",
       "Engagement Features",
       "Privacy Level",
       "Privacy Level",
       "Privacy Level",
       "Privacy Level" >> @@
   "Gaming Communities" :>
    << "Fast, casual, meme-friendly",
       "Short-term game sessions",
       "Gaming strategies and tips",
       "Game stats and meta updates",
       "Voice message analysis",
       "High - automated moderation",
       "XP tracking, tournaments",
       "Standard - public channels",
       "Educational Groups",
       "Patient, encouraging, formal",
       "Long-term academic progress",
       "Study habits and knowledge gaps",
       "Academic sources priority",
       "Document and PDF analysis",
       "Medium - scheduled assistance",
       "Study groups, progress tracking",
       "Enhanced - student data protection" >> @@
   "Content Creators" :>
    << "Brand-aligned, engaging",
       "Content performance history",
       "Audience preferences patterns",
       "Trend and engagement data",
       "Image and video analysis",
       "Medium - content scheduling",
       "Analytics dashboards, growth tracking",
       "Standard - creator-controlled",
       "Professional Communities",
       "Professional, concise, helpful",
       "Project and meeting context",
       "Work patterns and efficiency",
       "Business and industry sources",
       "Document collaboration features",
       "Low - human oversight required",
       "Meeting summaries, task management",
       "High - enterprise compliance" >>)

\* the keys of feature_data, in order
FeatureDataKeys ==
  << "Feature Category", "Gaming Communities", "Content Creators" >>

\* data  (archive/script (3).py, lines 59-104)
FeaturesData ==
  ("Feature Category" :>
    << "Response Style",
       "Memory System",
       "Learning Focus",
       "Fact-Checking Priority",
       "Multimodal Features",
       "Automation Level",
       "Engagement Features",
       "Privacy Level" >> @@
   "Gaming Communities" :>
    << "Fast, casual, meme-friendly",
       "Short-term game sessions and player stats",
       "Gaming strategies, tips, and meta updates",
       "Game stats and competitive data priority",
       "Voice message analysis, game screenshots",
       "High - automated moderation and events",
       "XP tracking, leaderboards, tournaments",
       "Standard - public gaming channels" >> @@
   "Educational Groups" :>
    << "Patient, encouraging, formal tone",
       "Long-term academic progress tracking",
       "Study habits and knowledge gap identification",
       "Academic sources and educational content priority",
       "Document/PDF analysis, study materials",
       "Medium - scheduled study assistance",
       "Study groups, progress tracking, quizzes",
       "Enhanced - student data protection" >> @@
   "Content Creators" :>
    << "Brand-aligned, engaging, promotional",
       "Content performance and audience history",
       "Audience preferences and engagement patterns",
       "Trend data and content accuracy verification",
       "Image/video analysis, content optimization",
       "Medium - content scheduling and promotion",
       "Analytics dashboards, growth tracking, feedback",
       "Standard - creator-controlled privacy" >> @@
   "Professional Communities" :>
    << "Professional, concise, business-focused",
       "Project context and meeting history",
       "Work patterns and productivity optimization",
       "Business/industry sources and compliance data",
       "Document collaboration, presentation analysis",
       "Low - human oversight for important decisions",
       "Meeting summaries, task management, networking",
       "High - enterprise compliance and security" >>)

\* the keys of data, in order
FeaturesDataKeys ==
  << "Feature Category", "Gaming Communities", "Educational Groups", "Content Creators", "Professional Communities" >>

\* summary_stats  (archive/script (3).py, lines 116-124)
SummaryStats ==
  ("User Group" :>
    << "Gaming Communities",
       "Educational Groups",
       "Content Creators",
       "Professional Communities" >> @@
   "Typical Age Range" :>
    << "16-34",
       "16-25",
       "18-35",
       "25-45" >> @@
   "Server Size Range" :>
    << "50-5,000",
       "20-500",
       "100-10,000",
       "50-1,000" >> @@
   "Daily Active %" :>
    << "60-80%",
       "40-60%",
       "50-70%",
       "30-50%" >> @@
   "Voice Usage" :>
    << "Very High",
       "Medium",
       "Medium-High",
       "Low-Medium" >> @@
   "Peak Activity" :>
    << "Evenings/Weekends",
       "Study Hours",
       "Content Release Times",
       "Business Hours" >> @@
   "Primary Use Case" :>
    << "Entertainment/Competition",
       "Learning/Collaboration",
       "Community Building",
       "Professional Work" >>)

\* the keys of summary_stats, in order
SummaryStatsKeys ==
  << "User Group", "Typical Age Range", "Server Size Range", "Daily Active %", "Voice Usage", "Peak Activity", "Primary Use Case" >>

\* the columns of data that hold ints
LimitsInts == {"RPM (Requests/Min)", "RPD (Requests/Day)"}

\* further records of the model table
LimitsExtra ==
  { ("Model" :> "Gemini \"Ultra\", preview" @@
     "RPM (Requests/Min)" :> 2 @@
     "TPM (Tokens/Min)" :> "32,000" @@
     "RPD (Requests/Day)" :> 50 @@
     "Input Cost" :> "Free" @@
     "Output Cost" :> "Free" @@
     "Best For Chatbots" :> "Yes"),
    ("Model" :> "Gemini Nano" @@
     "RPM (Requests/Min)" :> 60 @@
     "TPM (Tokens/Min)" :> "1,000,000" @@
     "RPD (Requests/Day)" :> 0 @@
     "Input Cost" :> "" @@
     "Output Cost" :> "Free" @@
     "Best For Chatbots" :> "Say \"no\"") }

\* the tables the script is run on: the literal or no record, followed by
\* further records, and the literal with one column a record short
LimitsDatasets ==
  { WithRows(TakeRows(LimitsData, n), xs) :
      n \in {0, Len(LimitsData["Model"])},
      xs \in SeqUpTo(LimitsExtra, MaxExtra) }
  \cup { DropLast(LimitsData, "Input Cost") }

LimitsInit ==
  /\ script = "limits"
  /\ pc = "dataframe"
  /\ input_types = <<>>
  /\ data \in { [data |-> d, features |-> LimitsFeatures] : d \in LimitsDatasets }

limitsFrame == <<script, prev, i, j, data, lit, sankeyVars, chart_data, colors,
                 all_servers, cuts, fig, rendered>>

\* df = pd.DataFrame(data)
LimitsDataFrame ==
  /\ script = "limits" /\ pc = "dataframe"
  /\ IF Ragged(data.data)
       THEN err' = "ValueError" /\ pc' = "failed" /\ df' = df
       ELSE /\ df' = DataFrameOfColumns(data.data, LimitsDataKeys)
            /\ pc' = "print_table"
            /\ err' = err
  /\ UNCHANGED <<limitsFrame, out, files, csv, df2>>

\* the title, the rule and df.to_string(index=False)
LimitsPrintTable ==
  /\ script = "limits" /\ pc = "print_table"
  /\ out' = out \o << "Gemini API Free Tier Comparison for Chatbots:",
                      Repeat("=", 60),
                      ToStringFrame(df, LimitsInts, 0) >>
  /\ pc' = "to_csv"
  /\ UNCHANGED <<limitsFrame, err, df, files, csv, df2>>

\* df.to_csv('gemini_api_free_tier_comparison.csv', index=False)
\* the confirmation printed whether or not the call returned
LimitsToCsvConfirms ==
  /\ script = "limits" /\ pc = "to_csv"
  /\ out' = Append(out, "\nData saved to: gemini_api_free_tier_comparison.csv")
  /\ \/ /\ files' = Append(files, "gemini_api_free_tier_comparison.csv")
        /\ csv' = Append(csv, [name |-> "gemini_api_free_tier_comparison.csv",
                                lines |-> ToCsv(df, LimitsInts)])
        /\ pc' = "print_saved"
        /\ err' = err
     \/ /\ err' = "OSError"
        /\ pc' = "failed"
        /\ UNCHANGED <<files, csv>>
  /\ UNCHANGED <<limitsFrame, df, df2>>

\* the call writes the file and returns, or raises when the file system
\* refuses the file; files lists the writes that returned
LimitsToCsv ==
  /\ script = "limits" /\ pc = "to_csv"
  /\ \/ /\ files' = Append(files, "gemini_api_free_tier_comparison.csv")
        /\ csv' = Append(csv, [name |-> "gemini_api_free_tier_comparison.csv",
                                lines |-> ToCsv(df, LimitsInts)])
        /\ pc' = "print_saved"
        /\ err' = err
     \/ /\ err' = "OSError"
        /\ pc' = "failed"
        /\ UNCHANGED <<files, csv>>
  /\ UNCHANGED <<limitsFrame, out, df, df2>>

\* the confirmation and the heading of the feature summary
LimitsPrintSaved ==
  /\ script = "limits" /\ pc = "print_saved"
  /\ out' = out \o << "\nData saved to: gemini_api_free_tier_comparison.csv",
                      "\n\nKEY FEATURES FOR CHATBOT DEVELOPMENT:",
                      Repeat("=", 50) >>
  /\ pc' = "features_df"
  /\ UNCHANGED <<limitsFrame, err, df, files, csv, df2>>

\* features_df = pd.DataFrame(features)
LimitsFeaturesFrame ==
  /\ script = "limits" /\ pc = "features_df"
  /\ df2' = DataFrameOfColumns(data.features, LimitsFeaturesKeys)
  /\ pc' = "print_features"
  /\ UNCHANGED <<limitsFrame, err, out, df, files, csv>>

\* print(features_df.to_string(index=False))
LimitsPrintFeatures ==
  /\ script = "limits" /\ pc = "print_features"
  /\ out' = Append(out, ToStringFrame(df2, {}, 0))
  /\ pc' = "done"
  /\ UNCHANGED <<limitsFrame, err, df, files, csv, df2>>

\* further records of the feature table and of the summary table
FeaturesExtra ==
  { ("Feature Category" :> "Moderation, \"soft\"" @@
     "Gaming Communities" :> "Strict, fast" @@
     "Educational Groups" :> "Strict" @@
     "Content Creators" :> "Brand-safe" @@
     "Professional Communities" :> "Formal") }

SummaryExtra ==
  { ("User Group" :> "Hobby Groups" @@
     "Typical Age Range" :> "18-60" @@
     "Server Size Range" :> "10-2,000" @@
     "Daily Active %" :> "20-40%" @@
     "Voice Usage" :> "Low" @@
     "Peak Activity" :> "Weekends, \"late\"" @@
     "Primary Use Case" :> "Sharing") }

FeaturesDatasets ==
  { WithRows(TakeRows(FeaturesData, n), xs) :
      n \in {0, Len(FeaturesData["Feature Category"])},
      xs \in SeqUpTo(FeaturesExtra, MaxExtra) }

SummaryDatasets ==
  { WithRows(SummaryStats, xs) : xs \in SeqUpTo(SummaryExtra, MaxExtra) }

FeaturesInit ==
  /\ script = "features"
  /\ pc = "dataframe"
  /\ input_types = <<>>
  /\ data \in { [feature_data |-> FeatureData, data |-> d, summary_stats |-> s] :
                  d \in FeaturesDatasets, s \in SummaryDatasets }

\* the width max_colwidth gives the columns of the feature table
FeaturesColWidth == 40

\* df = pd.DataFrame(data)
FeaturesDataFrame ==
  /\ script = "features" /\ pc = "dataframe"
  /\ df' = DataFrameOfColumns(data.data, FeaturesDataKeys)
  /\ pc' = "print_table"
  /\ UNCHANGED <<limitsFrame, err, out, files, csv, df2>>

\* the title, the rule and df.to_string(index=False, max_colwidth=40)
FeaturesPrintTable ==
  /\ script = "features" /\ pc = "print_table"
  /\ out' = out \o << "Discord AI Bot Feature Customization by User Group",
                      Repeat("=", 60),
                      ToStringFrame(df, {}, FeaturesColWidth) >>
  /\ pc' = "to_csv"
  /\ UNCHANGED <<limitsFrame, err, df, files, csv, df2>>

\* df.to_csv('discord_bot_feature_customization.csv', index=False)
\* the call writes the file and returns, or raises when the file system
\* refuses the file; files lists the writes that returned
FeaturesToCsv ==
  /\ script = "features" /\ pc = "to_csv"
  /\ \/ /\ files' = Append(files, "discord_bot_feature_customization.csv")
        /\ csv' = Append(csv, [name |-> "discord_bot_feature_customization.csv",
                                lines |-> ToCsv(df, {})])
        /\ pc' = "print_saved"
        /\ err' = err
     \/ /\ err' = "OSError"
        /\ pc' = "failed"
        /\ UNCHANGED <<files, csv>>
  /\ UNCHANGED <<limitsFrame, out, df, df2>>

FeaturesPrintSaved ==
  /\ script = "features" /\ pc = "print_saved"
  /\ out' = Append(out, "\n\nDetailed feature customization data saved to 'discord_bot_feature_customization.csv'")
  /\ pc' = "summary_df"
  /\ UNCHANGED <<limitsFrame, err, df, files, csv, df2>>

\* summary_df = pd.DataFrame(summary_stats)
FeaturesSummaryFrame ==
  /\ script = "features" /\ pc = "summary_df"
  /\ df2' = DataFrameOfColumns(data.summary_stats, SummaryStatsKeys)
  /\ pc' = "print_summary"
  /\ UNCHANGED <<limitsFrame, err, out, df, files, csv>>

\* the heading, the rule and summary_df.to_string(index=False)
FeaturesPrintSummary ==
  /\ script = "features" /\ pc = "print_summary"
  /\ out' = out \o << "\n\nUser Group Demographics and Usage Patterns",
                      Repeat("=", 60),
                      ToStringFrame(df2, {}, 0) >>
  /\ pc' = "summary_to_csv"
  /\ UNCHANGED <<limitsFrame, err, df, files, csv, df2>>

\* summary_df.to_csv('discord_user_group_demographics.csv', index=False)
\* the call writes the file and returns, or raises when the file system
\* refuses the file; files lists the writes that returned
FeaturesSummaryToCsv ==
  /\ script = "features" /\ pc = "summary_to_csv"
  /\ \/ /\ files' = Append(files, "discord_user_group_demographics.csv")
        /\ csv' = Append(csv, [name |-> "discord_user_group_demographics.csv",
                                lines |-> ToCsv(df2, {})])
        /\ pc' = "print_summary_saved"
        /\ err' = err
     \/ /\ err' = "OSError"
        /\ pc' = "failed"
        /\ UNCHANGED <<files, csv>>
  /\ UNCHANGED <<limitsFrame, out, df, df2>>

FeaturesPrintSummarySaved ==
  /\ script = "features" /\ pc = "print_summary_saved"
  /\ out' = Append(out, "\n\nUser demographics data saved to 'discord_user_group_demographics.csv'")
  /\ pc' = "done"
  /\ UNCHANGED <<limitsFrame, err, df, files, csv, df2>>

(***************************************************************************)
(* archive/chart_script_1 (2).py: the capability bar chart.                *)
(***************************************************************************)
\* data["capabilities"]  (lines 6-46): for every modality its capabilities
\* and their scores, in the order of the literal
CapsData ==
  ("Text Processing" :>
     << [capability |-> "Context Awareness", score |-> 9],
        [capability |-> "Conversation Threading", score |-> 8],
        [capability |-> "Multi-language Support", score |-> 9],
        [capability |-> "Intent Recognition", score |-> 8],
        [capability |-> "Semantic Understanding", score |-> 9] >> @@
   "Image Analysis" :>
     << [capability |-> "Object Detection", score |-> 9],
        [capability |-> "Visual Q&A", score |-> 10],
        [capability |-> "Content Moderation", score |-> 8],
        [capability |-> "Art Analysis", score |-> 7],
        [capability |-> "OCR Text Extraction", score |-> 9],
        [capability |-> "Image Segmentation", score |-> 8] >> @@
   "Audio Processing" :>
     << [capability |-> "Speech Transcription", score |-> 9],
        [capability |-> "Voice Commands", score |-> 8],
        [capability |-> "Real-time Interaction", score |-> 10],
        [capability |-> "Emotion Detection", score |-> 7],
        [capability |-> "Multi-language Audio", score |-> 8] >> @@
   "Video Understanding" :>
     << [capability |-> "Scene Analysis", score |-> 9],
        [capability |-> "Timestamp Queries", score |-> 8],
        [capability |-> "Content Summarization", score |-> 9],
        [capability |-> "Visual+Audio Understanding", score |-> 10],
        [capability |-> "Frame Extraction", score |-> 8] >> @@
   "Document Processing" :>
     << [capability |-> "PDF Analysis", score |-> 10],
        [capability |-> "Table Extraction", score |-> 9],
        [capability |-> "Multi-page Processing", score |-> 8],
        [capability |-> "Academic Q&A", score |-> 9],
        [capability |-> "Layout Understanding", score |-> 8],
        [capability |-> "Handwriting Recognition", score |-> 7] >>)

\* colors  (lines 49-55)
CapsColors ==
  ("Text Processing" :> "#1FB8CD" @@
   "Image Analysis" :> "#FFC185" @@
   "Audio Processing" :> "#ECEBD5" @@
   "Video Understanding" :> "#5D878F" @@
   "Document Processing" :> "#D2BA4C")

\* name_mapping  (lines 58-86)
NameMapping ==
  ("Context Awareness" :> "Context Aware" @@
   "Conversation Threading" :> "Conv Threading" @@
   "Multi-language Support" :> "Multi-lang Supp" @@
   "Intent Recognition" :> "Intent Recog" @@
   "Semantic Understanding" :> "Semantic Undst" @@
   "Object Detection" :> "Object Detect" @@
   "Visual Q&A" :> "Visual Q&A" @@
   "Content Moderation" :> "Content Mod" @@
   "Art Analysis" :> "Art Analysis" @@
   "OCR Text Extraction" :> "OCR Extract" @@
   "Image Segmentation" :> "Image Segment" @@
   "Speech Transcription" :> "Speech Transc" @@
   "Voice Commands" :> "Voice Commands" @@
   "Real-time Interaction" :> "Real-time Int" @@
   "Emotion Detection" :> "Emotion Detect" @@
   "Multi-language Audio" :> "Multi-lang Aud" @@
   "Scene Analysis" :> "Scene Analysis" @@
   "Timestamp Queries" :> "Timestamp Quer" @@
   "Content Summarization" :> "Content Summ" @@
   "Visual+Audio Understanding" :> "Visual+Audio" @@
   "Frame Extraction" :> "Frame Extract" @@
   "PDF Analysis" :> "PDF Analysis" @@
   "Table Extraction" :> "Table Extract" @@
   "Multi-page Processing" :> "Multi-page Proc" @@
   "Academic Q&A" :> "Academic Q&A" @@
   "Layout Understanding" :> "Layout Undst" @@
   "Handwriting Recognition" :> "Handwriting")

\* modality_order  (line 92)
ModalityOrder ==
  << "Text Processing", "Image Analysis", "Audio Processing",
     "Video Understanding", "Document Processing" >>

\* further capabilities a modality may hold after those of the literal
CapsExtra ==
  { [capability |-> "Code Review", score |-> 9],
    [capability |-> "PDF Analysis", score |-> 7] }

\* d without the key k
Without(d, k) == [x \in DOMAIN d \ {k} |-> d[x]]

\* the capabilities the script is run on: the literal, with or without its
\* last modality, and further capabilities in one modality
CapsDatasets ==
  { [d EXCEPT ![m] = @ \o xs] :
      d \in {CapsData, Without(CapsData, "Document Processing")},
      m \in {"Text Processing", "Audio Processing"},
      xs \in { s \in SeqUpTo(CapsExtra, MaxExtra) :
                 \A a, b \in 1..Len(s) : a # b => s[a] # s[b] } }

CapsInit ==
  /\ script = "caps"
  /\ pc = "modalities"
  /\ input_types = <<>>
  /\ data \in { [capabilities |-> d] : d \in CapsDatasets }

\* what the chart scripts without a DataFrame never touch
plotFrame == <<sankeyFrame, sankeyVars>>

\* the go.Bar of one modality (lines 106-119)
CapsBar(modality, caps) ==
  [ type |-> "bar",
    name |-> modality,
    x |-> [k \in 1..Len(caps) |-> caps[k].score],
    y |-> [k \in 1..Len(caps) |-> NameMapping[caps[k].capability]],
    marker_color |-> CapsColors[modality],
    text |-> [k \in 1..Len(caps) |-> ToStr(caps[k].score)] ]

\* for modality in modality_order: one pass, or the end of the loop
CapsAddTrace ==
  /\ script = "caps" /\ pc = "modalities"
  /\ IF i < Len(ModalityOrder)
       THEN LET modality == ModalityOrder[i + 1]
            IN  IF \/ modality \notin DOMAIN data.capabilities
                   \/ \E k \in 1..Len(data.capabilities[modality]) :
                        data.capabilities[modality][k].capability
                          \notin DOMAIN NameMapping
                  THEN /\ err' = "KeyError"
                       /\ pc' = "failed"
                       /\ UNCHANGED <<fig, rendered, i>>
                  ELSE /\ fig' = [fig EXCEPT !.data =
                                    Append(@, CapsBar(modality, data.capabilities[modality]))]
                       /\ rendered' = Append(rendered,
                                        CapsBar(modality, data.capabilities[modality]))
                       /\ i' = i + 1
                       /\ UNCHANGED <<pc, err>>
       ELSE /\ pc' = "layout"
            /\ i' = 0
            /\ UNCHANGED <<fig, rendered, err>>
  /\ UNCHANGED <<script, prev, files, plotFrame>>

\* fig.update_layout(..)
CapsLayout ==
  /\ script = "caps" /\ pc = "layout"
  /\ fig' = [fig EXCEPT !.layout =
               <<"Gemini API Multimodal Enhancement", "Enhancement",
                 "Capabilities", "group", "total ascending">>]
  /\ pc' = "write"
  /\ UNCHANGED <<script, prev, err, i, rendered, files, plotFrame>>

\* fig.write_image("gemini_multimodal_capabilities.png")
CapsWrite ==
  /\ script = "caps" /\ pc = "write"
  /\ files' = Append(files, "gemini_multimodal_capabilities.png")
  /\ pc' = "done"
  /\ UNCHANGED <<script, prev, err, i, fig, rendered, plotFrame>>

(***************************************************************************)
(* archive/chart_script_2.py: the RPD bar chart.                           *)
(***************************************************************************)
\* models  (line 4)
RpdModels ==
  << "Gemini 2.5 Flash-Lite (1000 RPD)", "Gemini 2.5 Flash (250 RPD)",
     "Gemini 2.0 Flash (200 RPD)", "Gemini 2.0 Flash-Lite (200 RPD)" >>

\* rpd_values  (line 5)
RpdValues == << 1000, 250, 200, 200 >>

\* marker_color  (line 15)
RpdColors == << "#1e3a8a", "#3b82f6", "#60a5fa", "#93c5fd" >>

\* further models and values the two lists may hold
RpdExtraModels == { "Gemini 1.5 Flash (50 RPD)" }
RpdExtraValues == { 50 }

\* the lists the script is run on: a prefix of the literals, followed by
\* further entries (the two lists need not grow together)
RpdDatasets ==
  { [ models     |-> SubSeq(RpdModels, 1, n) \o ms,
      rpd_values |-> SubSeq(RpdValues, 1, n) \o vs ] :
      n \in 0..Len(RpdModels),
      ms \in SeqUpTo(RpdExtraModels, MaxExtra),
      vs \in SeqUpTo(RpdExtraValues, MaxExtra) }

RpdInit ==
  /\ script = "rpd"
  /\ pc = "trace"
  /\ input_types = <<>>
  /\ data \in RpdDatasets

\* go.Bar  (lines 11-19)
RpdBar(models, rpd_values) ==
  [ type |-> "bar",
    name |-> "",
    y |-> models,
    x |-> rpd_values,
    marker_color |-> RpdColors,
    text |-> [k \in 1..Len(rpd_values) |-> ToStr(rpd_values[k])] ]

\* fig = go.Figure(); fig.add_trace(go.Bar(..))
RpdAddTrace ==
  /\ script = "rpd" /\ pc = "trace"
  /\ fig' = [NoFig EXCEPT !.data = << RpdBar(data.models, data.rpd_values) >>]
  /\ rendered' = Append(rendered, RpdBar(data.models, data.rpd_values))
  /\ pc' = "layout"
  /\ UNCHANGED <<script, prev, err, i, files, plotFrame>>

\* fig.update_layout(..)
RpdLayout ==
  /\ script = "rpd" /\ pc = "layout"
  /\ fig' = [fig EXCEPT !.layout =
               <<"Best Free Gemini Models for Chatbots", "Requests/Day",
                 "Gemini Model", "Free tier daily limits">>]
  /\ pc' = "write"
  /\ UNCHANGED <<script, prev, err, i, rendered, files, plotFrame>>

\* the chart written under the name of the chart of chart_script.py
RpdWriteSameName ==
  /\ script = "rpd" /\ pc = "write"
  /\ files' = Append(files, "gemini_api_comparison.png")
  /\ pc' = "done"
  /\ UNCHANGED <<script, prev, err, i, fig, rendered, plotFrame>>

\* fig.write_image("gemini_models_chart.png")
RpdWrite ==
  /\ script = "rpd" /\ pc = "write"
  /\ files' = Append(files, "gemini_models_chart.png")
  /\ pc' = "done"
  /\ UNCHANGED <<script, prev, err, i, fig, rendered, plotFrame>>

(***************************************************************************)
(* archive/chart_script_1 (3).py: the comparison table.                    *)
(***************************************************************************)
\* user_groups  (line 7)
UserGroups ==
  << "Gaming Comm", "Educational", "Content Create", "Professional" >>

\* categories  (line 8)
Categories ==
  << "Demographics", "Priority Feat", "Interaction", "AI Capabilities", "Engagement" >>

\* data_matrix  (lines 11-17): one row per category, one entry per user group
DataMatrix ==
  << << "16-34, 50-5k",
        "16-25, 20-500",
        "18-35, 100-10k",
        "25-45, 50-1k" >>,
     << "Real-time<br>XP/Leaderboard<br>Tournament",
        "Study tools<br>Quiz systems<br>Progress track",
        "Engage track<br>Content promo<br>Analytics",
        "Prof comm<br>Compliance<br>Productivity" >>,
     << "Fast, compet<br>casual",
        "Structured<br>supportive<br>formal",
        "Brand-focused<br>engaging<br>promotional",
        "Formal<br>business<br>efficient" >>,
     << "Game analysis<br>Strategy tips<br>Event auto",
        "Homework help<br>Study plan<br>Learn analytic",
        "Content optim<br>Audience insight<br>Growth strat",
        "Meeting summ<br>Task mgmt<br>Knowledge base" >>,
     << "Eve/weekends<br>voice-heavy",
        "Academic cal<br>text-focused",
        "Content rel<br>multi-modal",
        "Business hrs<br>structured" >> >>
\* the fill colours of the five cell columns  (line 30)
FillColors == << "#F8F9FA", "#E8F4FD", "#FFF2E8", "#F0F8E8", "#F0F4F8" >>

\* a further user group, the entries it adds to the rows, and a further
\* category
ComparisonExtraGroups == { "Hobby Groups" }
ComparisonExtraEntry == "All ages<br>10-2k"
ComparisonExtraCategories == { "Moderation" }

\* the lists the script is run on: the literals, followed by further user
\* groups (with or without their entries in the rows) and categories
ComparisonDatasets ==
  { [ user_groups |-> UserGroups \o gs,
      categories  |-> Categories \o cs,
      data_matrix |-> [r \in 1..Len(DataMatrix) |->
                         DataMatrix[r] \o
                           (IF filled THEN [k \in 1..Len(gs) |-> ComparisonExtraEntry]
                                      ELSE <<>>)] ] :
      gs \in SeqUpTo(ComparisonExtraGroups, MaxExtra),
      cs \in SeqUpTo(ComparisonExtraCategories, MaxExtra),
      filled \in BOOLEAN }

ComparisonInit ==
  /\ script = "comparison"
  /\ pc = "figure"
  /\ input_types = <<>>
  /\ data \in ComparisonDatasets

\* [row[i] for row in data_matrix] finds its entry in every row
ColumnInRange(d, c) == \A r \in 1..Len(d.data_matrix) : c <= Len(d.data_matrix[r])

\* a table whose cells are the rows of data_matrix, not its columns
ComparisonTableRows(d) ==
  [ type |-> "table",
    name |-> "",
    header |-> [values |-> <<"Category">> \o d.user_groups,
                fill_color |-> "#1FB8CD"],
    cells |-> [values |-> << d.categories >> \o d.data_matrix,
               fill_color |->
                 [c \in 1..Len(FillColors) |->
                    [r \in 1..Len(d.categories) |-> FillColors[c]]]] ]

\* go.Table  (lines 20-36)
ComparisonTable(d) ==
  [ type |-> "table",
    name |-> "",
    header |-> [values |-> <<"Category">> \o d.user_groups,
                fill_color |-> "#1FB8CD"],
    cells |-> [values |->
                 << d.categories >> \o
                 [c \in 1..Len(d.user_groups) |->
                    [r \in 1..Len(d.data_matrix) |-> d.data_matrix[r][c]]],
               fill_color |->
                 [c \in 1..Len(FillColors) |->
                    [r \in 1..Len(d.categories) |-> FillColors[c]]]] ]

\* fig = go.Figure(data=[go.Table(..)])
ComparisonFigure ==
  /\ script = "comparison" /\ pc = "figure"
  /\ IF \E c \in 1..Len(data.user_groups) : ~ColumnInRange(data, c)
       THEN /\ err' = "IndexError"
            /\ pc' = "failed"
            /\ UNCHANGED <<fig, rendered>>
       ELSE /\ fig' = [NoFig EXCEPT !.data = << ComparisonTable(data) >>]
            /\ rendered' = Append(rendered, ComparisonTable(data))
            /\ pc' = "layout"
            /\ err' = err
  /\ UNCHANGED <<script, prev, i, files, plotFrame>>

\* fig.update_layout(..)
ComparisonLayout ==
  /\ script = "comparison" /\ pc = "layout"
  /\ fig' = [fig EXCEPT !.layout =
               <<"Discord AI Bot User Groups Comparison", "white", "white">>]
  /\ pc' = "write"
  /\ UNCHANGED <<script, prev, err, i, rendered, files, plotFrame>>

\* fig.write_image("discord_comparison_chart.png")
ComparisonWrite ==
  /\ script = "comparison" /\ pc = "write"
  /\ files' = Append(files, "discord_comparison_chart.png")
  /\ pc' = "done"
  /\ UNCHANGED <<script, prev, err, i, fig, rendered, plotFrame>>

(***************************************************************************)
(* archive/script (2).py: the second capabilities report.                  *)
(*                                                                         *)
(* The gemini_capabilities literal holds the entry                         *)
(* "Audio input format": "16-bit PCM, 16kHz, mono" inside a list (line     *)
(* 42), which is not an expression: the interpreter rejects the file when  *)
(* it compiles it, before the first statement runs.                        *)
(***************************************************************************)
Report2Init ==
  /\ script = "report2"
  /\ pc = "compile"
  /\ input_types = <<>>
  /\ data = <<>>

\* the compilation of the file: SyntaxError at line 42
Report2Compile ==
  /\ script = "report2" /\ pc = "compile"
  /\ err' = "SyntaxError"
  /\ pc' = "failed"
  /\ UNCHANGED <<script, prev, i, fig, rendered, files, plotFrame>>

(***************************************************************************)
(* Claims about the runs of the scripts as written.                        *)
(***************************************************************************)
\* the run is one of the script as written
AsWritten ==
  CASE script = "sankey"     -> input_types = InputTypes
    [] script = "groups"     -> lit = GroupsData
    [] script = "mcpchart"   -> lit = McpChartData
    [] script = "rpm"        -> lit = RpmData
    [] script = "tpm"        -> lit = TpmData
    [] script = "mcp"        -> lit = McpServersData
    [] script = "report"     -> lit = [gemini_capabilities |-> GeminiCapabilities,
                                       discord_integration |-> DiscordIntegration,
                                       use_cases |-> UseCases]
    [] script = "limits"     -> lit.data = LimitsData
    [] script = "features"   -> lit.data = FeaturesData /\ lit.summary_stats = SummaryStats
    [] script = "caps"       -> lit.capabilities = CapsData
    [] script = "rpd"        -> lit = [models |-> RpdModels, rpd_values |-> RpdValues]
    [] script = "comparison" -> lit = [user_groups |-> UserGroups,
                                       categories |-> Categories,
                                       data_matrix |-> DataMatrix]
    [] script = "report2"    -> TRUE

\* C15: every script, started with no input, runs build data, transform,
\* render/write to its end and exits normally; none stops early with an
\* error, archive/script (2).py included (a to_csv call that the file system
\* refuses is not a step of the script).
C15_RunsToCompletion == AsWritten => ~(pc = "failed" /\ err # "OSError")

(***************************************************************************)
(* Claims about the files the scripts write.                               *)
(***************************************************************************)
\* C16: in one run a script writes at most one local file (one
\* fig.write_image call or one to_csv call).
C16_OneFileWrite == Len(files) <= 1

\* the frame the k-th CSV file of the run was written from
WrittenFrame(k) == IF k = 1 THEN df ELSE df2

\* the columns of ints of that frame
WrittenInts(k) == IF script = "limits" /\ k = 1 THEN LimitsInts ELSE {}

\* the file read back: its first line is the header, the others the rows
ReadCsv(lines) ==
  [ header |-> ParseCsvLine(lines[1]),
    rows   |-> [k \in 1..(Len(lines) - 1) |-> ParseCsvLine(lines[k + 1])] ]

\* the rows and columns of the k-th CSV file of the script as written
WrittenShape(k) ==
  CASE script = "limits"                -> <<8, 7>>
    [] script = "features" /\ k = 1     -> <<8, 5>>
    [] script = "features" /\ k = 2     -> <<4, 7>>
    [] script = "mcp"                   -> <<14, 8>>

\* the run is one of the script as written
CsvAsWritten ==
  CASE script = "limits"   -> lit.data = LimitsData
    [] script = "features" -> lit.data = FeaturesData /\ lit.summary_stats = SummaryStats
    [] script = "mcp"      -> lit = McpServersData
    [] OTHER               -> FALSE

\* C17: every CSV file written has the column names as its header, in
\* column order, and one line per record; read back, it gives the same
\* number of rows, the same headers and cells equal as strings to the
\* originals, values with commas included.  As written, archive/script.py
\* gives 8 rows of 7 columns, archive/script (3).py 8 of 5 and 4 of 7, and
\* docs/brainstorming_MCP/script.py 14 rows of the 7 declared columns and
\* 'Section'.
C17_CsvRoundTrip ==
  \A k \in 1..Len(csv) :
    LET frame == WrittenFrame(k)
        back  == ReadCsv(csv[k].lines)
    IN  /\ Len(csv[k].lines) = Len(frame.rows) + 1
        /\ back.header = frame.columns
        /\ Len(back.rows) = Len(frame.rows)
        /\ \A r \in 1..Len(frame.rows) :
             /\ Len(back.rows[r]) = Len(frame.columns)
             /\ \A c \in 1..Len(frame.columns) :
                  back.rows[r][c] = CellText(frame, r, frame.columns[c], WrittenInts(k))
        /\ CsvAsWritten =>
             /\ <<Len(back.rows), Len(back.header)>> = WrittenShape(k)
             /\ script = "mcp" => back.header = Append(McpKeys, "Section")

\* a table with a value that holds a comma and one that holds a quote has
\* been written
C17_Witness ==
  /\ script = "limits" /\ pc = "done"
  /\ Len(csv) = 1 /\ Len(csv[1].lines) = 10
  /\ Contains(csv[1].lines[2], "\"250,000\"")
  /\ Contains(csv[1].lines[10], "\"Gemini \"\"Ultra\"\", preview\"")

(***************************************************************************)
(* Claims about the figures handed to the renderer.                        *)
(***************************************************************************)
\* every list of ls has n entries
AllOfLen(ls, n) == \A k \in 1..Len(ls) : Len(ls[k]) = n

\* C18: when the figure is handed to the renderer the parallel arrays of a
\* series have one length: in the Sankey 15 node labels and colours and 10
\* link sources, targets, values and colours; in the RPM bar chart 7 of y,
\* x, marker colours, text and customdata (and as many as the frame has
\* rows, whatever the records); in the RPD chart 4 models, values, marker
\* colours and texts; in the comparison table 5 header values, cell columns
\* and fill-colour columns, each column of len(categories) entries.
C18_ParallelArrays ==
  /\ (script = "rpm" /\ pc = "write") =>
       LET t == fig.data[1]
       IN  AllOfLen(<<t.y, t.x, t.marker_color, t.text, t.customdata>>,
                    Len(df.rows))
  /\ (AsWritten /\ pc = "write") =>
       LET t == fig.data[1]
       IN  CASE script = "sankey" ->
                  /\ AllOfLen(<<t.node.label, t.node.color>>, 15)
                  /\ AllOfLen(<<t.link.source, t.link.target, t.link.value,
                                t.link.color>>, 10)
             [] script = "rpm" ->
                  AllOfLen(<<t.y, t.x, t.marker_color, t.text, t.customdata>>, 7)
             [] script = "rpd" ->
                  AllOfLen(<<t.y, t.x, t.marker_color, t.text>>, 4)
             [] script = "comparison" ->
                  /\ AllOfLen(<<t.header.values, t.cells.values,
                                t.cells.fill_color>>, 5)
                  /\ AllOfLen(t.cells.values, Len(lit.categories))
                  /\ AllOfLen(t.cells.fill_color, Len(lit.categories))
             [] OTHER -> TRUE

\* the comparison table as written is about to be rendered
C18_Witness ==
  /\ script = "comparison" /\ pc = "write" /\ AsWritten
  /\ Len(fig.data) = 1
  /\ fig.data[1].cells.values[5] =
       <<"25-45, 50-1k", "Prof comm<br>Compliance<br>Productivity",
         "Formal<br>business<br>efficient",
         "Meeting summ<br>Task mgmt<br>Knowledge base",
         "Business hrs<br>structured">>

(***************************************************************************)
(* Claims about the dataset literals.                                      *)
(***************************************************************************)
\* the set of the keys of a dict of the nested literals
KeySet(d) == { d.items[k].key : k \in 1..Len(d.items) }

\* the category records of a dict of the nested literals have one key set
SameKeySets(d) ==
  \A a, b \in 1..Len(d.items) :
    KeySet(d.items[a].value) = KeySet(d.items[b].value)

\* C19: within each dataset every record has exactly the same set of keys:
\* the model lists of archive/chart_script.py and archive/chart_script_1.py,
\* the user groups of archive/chart_script (3).py, the servers of both
\* docs/brainstorming_MCP scripts (within and across sections), and the
\* category records of gemini_capabilities and of use_cases in
\* archive/script_1 (2).py.
C19_UniformKeys ==
  AsWritten =>
    CASE script \in {"rpm", "tpm", "groups", "mcpchart"} ->
           \A a, b \in 1..Len(lit) : DOMAIN lit[a] = DOMAIN lit[b]
      [] script = "mcp" ->
           \A s, t \in 1..Len(lit) :
             \A a \in 1..Len(lit[s]["servers"]), b \in 1..Len(lit[t]["servers"]) :
               DOMAIN lit[s]["servers"][a] = DOMAIN lit[t]["servers"][b]
      [] script = "report" ->
           /\ SameKeySets(lit.gemini_capabilities)
           /\ SameKeySets(lit.use_cases)
      [] OTHER -> TRUE

(***************************************************************************)
(* Claims about the length of the labels.                                  *)
(***************************************************************************)
\* the labels a trace puts on the category axis of its chart
AxisLabels(t) ==
  CASE t.type = "bar" /\ script \in {"rpm", "tpm", "rpd", "caps"} -> t.y
    [] t.type = "bar" /\ script = "groups" -> t.x
    [] OTHER -> <<>>

\* every label of the list fits the width
AllFit(ls, width) == \A k \in 1..Len(ls) : Len(ls[k]) <= width

\* the Server_Short values a scatter trace carries
ServerShorts(t) == [k \in 1..Len(t.customdata) |-> t.customdata[k][1]]

\* the labels that a shortening step produced are at most 15 characters
\* long: every Short_Model of the records of the literal, every value of
\* name_mapping, which has an entry for every capability of every modality
\* of the literal (no lookup fails), every group_short and every
\* Server_Short, whatever the records.
C20_ShortenedLabelsFit ==
  /\ \A c \in DOMAIN NameMapping : Len(NameMapping[c]) <= 15
  /\ (script = "caps" /\ AsWritten) => pc # "failed"
  /\ \A k \in 1..Len(rendered) :
       /\ (script = "rpm" /\ AsWritten) => AllFit(AxisLabels(rendered[k]), 15)
       /\ script \in {"caps", "groups"} => AllFit(AxisLabels(rendered[k]), 15)
       /\ script = "mcpchart" => AllFit(ServerShorts(rendered[k]), 15)

\* a chart whose group name had to be cut has been drawn
C20_Witness ==
  /\ script = "groups" /\ pc = "done"
  /\ \E k \in 1..Len(lit) : lit[k]["user_group"] = "Open Source Developers"
  /\ \E k \in 1..Len(rendered) :
       \E n \in 1..Len(rendered[k].x) : rendered[k].x[n] = "Open Source Dev"

\* C20: every axis label that is passed to a chart is at most 15
\* characters long: every Short_Model, every value of name_mapping (which
\* has an entry for every capability, so no lookup fails), every
\* group_short and every Server_Short.
C20_AxisLabelsFit ==
  /\ \A c \in DOMAIN NameMapping : Len(NameMapping[c]) <= 15
  /\ (script = "caps" /\ AsWritten) => pc # "failed"
  /\ \A k \in 1..Len(rendered) :
       /\ AllFit(AxisLabels(rendered[k]), 15)
       /\ script = "mcpchart" => AllFit(ServerShorts(rendered[k]), 15)

(***************************************************************************)
(* Two scripts run in one working directory.                               *)
(***************************************************************************)
\* the names a script passes to write_image and to_csv
OutputFiles(s) ==
  CASE s = "sankey"     -> {"multimodal_flow_chart.png"}
    [] s = "groups"     -> {"discord_user_groups.png"}
    [] s = "mcpchart"   -> {"mcp_servers_comparison.png"}
    [] s = "rpm"        -> {"gemini_api_comparison.png"}
    [] s = "tpm"        -> {"gemini_tpm_limits.png"}
    [] s = "mcp"        -> {"mcp_servers_integration_guide.csv"}
    [] s = "limits"     -> {"gemini_api_free_tier_comparison.csv"}
    [] s = "features"   -> {"discord_bot_feature_customization.csv",
                            "discord_user_group_demographics.csv"}
    [] s = "caps"       -> {"gemini_multimodal_capabilities.png"}
    [] s = "rpd"        -> {"gemini_models_chart.png"}
    [] s = "comparison" -> {"discord_comparison_chart.png"}
    [] OTHER            -> {}

\* the names in a sequence of written files
Written(fs) == {fs[k] : k \in 1..Len(fs)}

CellLines(cell) == Split(cell, "<br>")

\* C22: in archive/chart_script_1 (3).py as written every user-group
\* header, every category label and every '<br>'-separated line of every
\* cell of data_matrix is at most 15 characters long.
C22_TableLinesFit ==
  (script = "comparison" /\ AsWritten /\ pc = "write") =>
    /\ AllFit(data.user_groups, 15)
    /\ AllFit(data.categories, 15)
    /\ \A r \in 1..Len(data.data_matrix) :
         \A c \in 1..Len(data.data_matrix[r]) :
           AllFit(CellLines(data.data_matrix[r][c]), 15)

(***************************************************************************)
(* Claims about the bars of the rate-limit charts.                         *)
(***************************************************************************)
\* C23: in archive/chart_script.py the bars are in non-decreasing RPM
\* order, the k-th colour is the colour of the Status of the k-th plotted
\* row (cyan exactly for 'Current', red otherwise), and the short name, the
\* RPM, the TPM, the RPD, the Status and the colour of a bar all come from
\* one record of data, every record making one bar.
C23_BarsAligned ==
  (script = "rpm" /\ pc \in {"legend", "layout", "write", "done"}) =>
    LET t == fig.data[1]
        n == Len(data)
    IN  /\ AllOfLen(<<t.index, t.y, t.x, t.marker_color, t.customdata>>, n)
        /\ { t.index[k] : k \in 1..n } = { k - 1 : k \in 1..n }
        /\ \A k \in 1..(n - 1) : t.x[k] <= t.x[k + 1]
        /\ \A k \in 1..n :
             LET r == data[t.index[k] + 1]
             IN  /\ t.y[k] = ShortModel(r["Model"])
                 /\ t.x[k] = r["RPM"]
                 /\ t.customdata[k] = << r["TPM"], r["RPD"], r["Status"] >>
                 /\ t.marker_color[k] = "#1FB8CD" <=> r["Status"] = "Current"
                 /\ t.marker_color[k] \in {"#1FB8CD", "#B4413C"}

\* the chart of the seven records as written is drawn, the sort having
\* moved records, and a deprecated model has its red bar
C23_Witness ==
  /\ script = "rpm" /\ pc = "write" /\ AsWritten
  /\ \E k \in 1..Len(fig.data[1].index) :
       /\ fig.data[1].index[k] # k - 1
       /\ fig.data[1].marker_color[k] = "#B4413C"
       /\ fig.data[1].y[k] = "G1.5 F-8B"

\* the place of a status in the list the trace loop walks, 0 when it is not
\* in the list
StatusRank(status) ==
  Least({ k \in 1..Len(TpmStatuses) : TpmStatuses[k] = status }, 0)

\* the bars of the figure, as pairs of a trace and a place in it
TpmBars ==
  { b \in (1..Len(fig.data)) \X (1..Len(data)) : b[2] <= Len(fig.data[b[1]].y) }

\* C24: in archive/chart_script_1.py every record whose Status is one of
\* 'Current', 'Deprecated', 'Limited' (all 7 as written) is a bar of exactly
\* one trace, the trace named after its Status and coloured
\* color_map[Status]; the traces come in the order Current, Deprecated,
\* Limited; a status with no record adds no trace; and the trace sizes add
\* up to the number of records.
C24_OneTracePerStatus ==
  (script = "tpm" /\ pc \in {"layout", "write", "done"}) =>
    LET ts == fig.data
    IN  /\ \A k \in 1..Len(ts) :
             /\ StatusRank(ts[k].name) > 0
             /\ ts[k].marker_color = ColorMap[ts[k].name]
             /\ Len(ts[k].y) >= 1
             /\ AllOfLen(<<ts[k].x, ts[k].index>>, Len(ts[k].y))
             /\ k < Len(ts) => StatusRank(ts[k].name) < StatusRank(ts[k + 1].name)
        /\ \A b \in TpmBars :
             LET r == data[ts[b[1]].index[b[2]] + 1]
             IN  /\ r["Status"] = ts[b[1]].name
                 /\ ts[b[1]].y[b[2]] = r["Model"]
                 /\ ts[b[1]].x[b[2]] = r["TPM"]
        /\ \A p \in 1..Len(data) :
             StatusRank(data[p]["Status"]) > 0 =>
               Cardinality({ b \in TpmBars : ts[b[1]].index[b[2]] = p - 1 }) = 1
        /\ Cardinality(TpmBars) =
             Cardinality({ p \in 1..Len(data) : StatusRank(data[p]["Status"]) > 0 })
        /\ AsWritten => Len(ts) = 3 /\ Cardinality(TpmBars) = 7

\* the three traces of the seven records as written: four current models,
\* two deprecated ones and the limited one
C24_Witness ==
  /\ script = "tpm" /\ pc = "write" /\ AsWritten
  /\ Len(fig.data) = 3
  /\ Len(fig.data[1].y) = 4 /\ Len(fig.data[2].y) = 2
  /\ fig.data[3].y = <<"Gemma 3 & 3n">>
  /\ fig.data[3].marker_color = "#D2BA4C"

(***************************************************************************)
(* Claims about the flattened table of the MCP report.                     *)
(***************************************************************************)
\* the servers of the sections from section k on, each with the name of its
\* section, in section order and list order
RECURSIVE ServersFrom(_, _)
ServersFrom(d, k) ==
  IF k > Len(d) THEN <<>>
  ELSE [n \in 1..Len(d[k]["servers"]) |->
          ("Section" :> d[k]["section"]) @@ d[k]["servers"][n]]
       \o ServersFrom(d, k + 1)

\* the number a printed line ends with, after its colon
PrintedCount(line) ==
  DigitsValue(SubSeq(line, Least(PositionsOf(line, ":", 1), 0) + 2, Len(line)), 0)

\* C25: in docs/brainstorming_MCP/script.py the flattened table has one row
\* per server of every section (14 = 5 + 3 + 3 + 3 as written), in section
\* order and within a section in list order, the 'Section' value of a row
\* is the name of the section of its server, and the four printed priority
\* counts add up to the printed total.
C25_FlattenedTable ==
  /\ (script = "mcp" /\ pc \notin {"flatten", "dataframe", "failed"}) =>
       /\ df.rows = ServersFrom(lit, 1)
       /\ AsWritten =>
            /\ Len(df.rows) = 14
            /\ [k \in 1..Len(lit) |-> Len(lit[k]["servers"])] = <<5, 3, 3, 3>>
  /\ (script = "mcp" /\ pc \in {"print_categories", "done"}) =>
       PrintedCount(out[4]) + PrintedCount(out[5]) + PrintedCount(out[6])
         + PrintedCount(out[7]) = PrintedCount(out[3])

\* the report of the 14 servers as written has printed its counts: 2
\* critical, 4 high, 6 medium and 2 low, and the sixth row is the first
\* server of the second section
C25_Witness ==
  /\ script = "mcp" /\ pc = "done" /\ AsWritten
  /\ out[3] = "\nTotal servers analyzed: 14"
  /\ out[4] = "Critical priority servers: 2"
  /\ out[6] = "Medium priority servers: 6"
  /\ df.rows[6]["Section"] = "Database MCP Servers"

(***************************************************************************)
(* Claims about the colours of the Sankey diagram.                         *)
(***************************************************************************)
\* the value of a hexadecimal digit
HexDigit(c) == Least(PositionsOf("0123456789ABCDEF", c, 1), 1) - 1

\* the value of the two hexadecimal digits of s at p
HexByte(s, p) == 16 * HexDigit(CharAt(s, p)) + HexDigit(CharAt(s, p + 1))

\* the colour '#RRGGBB' at opacity 0.2, as the link colours write it
Translucent(hex) ==
  "rgba(" \o ToStr(HexByte(hex, 2)) \o ", " \o ToStr(HexByte(hex, 4)) \o ", "
          \o ToStr(HexByte(hex, 6)) \o ", 0.2)"

\* C26: in the Sankey figure node k has the colour colors[k mod 5], the
\* list of link colours has one entry per link, and every link is drawn in
\* the translucent version of the colour of the modality of its source
\* node.
C26_LinkColourOfSource ==
  (script = "sankey" /\ AsWritten /\ pc = "write") =>
    LET t == fig.data[1]
    IN  /\ \A k \in 1..Len(t.node.color) :
             t.node.color[k] = SankeyColors[((k - 1) % 5) + 1]
        /\ Len(t.link.color) = Len(t.link.source)
        /\ \A k \in 1..Len(t.link.source) :
             t.link.color[k] =
               Translucent(SankeyColors[(t.link.source[k] % 5) + 1])

(***************************************************************************)
(* Claims about the shortened labels as names of the records.              *)
(***************************************************************************)
\* no value occurs twice in the list
PairwiseDistinct(ls) == \A a \in 1..Len(ls) : \A b \in 1..Len(ls) : ls[a] = ls[b] => a = b

\* the y labels of all the bar traces of the figure, trace after trace
RECURSIVE BarLabels(_)
BarLabels(ts) ==
  IF ts = <<>> THEN <<>>
  ELSE (IF ts[1].type = "bar" THEN ts[1].y ELSE <<>>) \o BarLabels(Tail(ts))

\* C27: for the literals as written the shortened labels are pairwise
\* distinct, the full names being distinct: Short_Model over the 7 models,
\* name_mapping over the 27 capabilities, group_short over the 4 user
\* groups and Server_Short over the 15 servers of
\* docs/brainstorming_MCP/chart_script.py.
C27_LabelsDistinct ==
  AsWritten =>
    /\ (script = "rpm" /\ pc = "write") =>
         /\ Len(df.rows) = 7
         /\ PairwiseDistinct(Column(df, "Model"))
         /\ PairwiseDistinct(Column(df, "Short_Model"))
    /\ (script = "caps" /\ pc = "write") =>
         /\ Len(BarLabels(fig.data)) = 27
         /\ PairwiseDistinct(BarLabels(fig.data))
    /\ (script = "groups" /\ pc = "write") =>
         /\ Len(chart_data) = 4
         /\ PairwiseDistinct([k \in 1..Len(chart_data) |-> chart_data[k]["full_group"]])
         /\ PairwiseDistinct([k \in 1..Len(chart_data) |-> chart_data[k]["group"]])
    /\ (script = "mcpchart" /\ pc = "write") =>
         /\ Len(df.rows) = 15
         /\ PairwiseDistinct(Column(df, "Server Name"))
         /\ PairwiseDistinct(Column(df, "Server_Short"))

\* the RPM chart as written is about to be saved: 'Gemini 2.5 Flash' and
\* 'Gemini 2.5 Flash-Lite' have the labels 'G2.5 F' and 'G2.5 FL'
C27_Witness ==
  /\ AsWritten /\ script = "rpm" /\ pc = "write"
  /\ \E a, b \in 1..Len(df.rows) :
       /\ df.rows[a]["Short_Model"] = "G2.5 F"
       /\ df.rows[b]["Short_Model"] = "G2.5 FL"

(***************************************************************************)
(* Claims about the format lines of the capability report.                 *)
(***************************************************************************)
\* the items a printed line lists after its label, separated by ', '
ListedItems(line, label) == Split(SubSeq(line, Len(label) + 1, Len(line)), ", ")

\* the values of a list, as a set
Listed(ls) == { ls[k] : k \in 1..Len(ls) }

\* C28: in archive/script_1 (2).py the three printed format sets are
\* pairwise disjoint and together are discord_formats with gemini_formats:
\* 'Compatible formats' lists the intersection, 'Discord-only' the formats
\* of Discord that Gemini lacks and 'Gemini-only' those of Gemini that
\* Discord lacks, so that every format is on exactly one line, once.
C28_FormatLinesPartition ==
  (script = "report" /\ pc = "section5") =>
    LET n == Len(out)
        compatible == ListedItems(out[n - 2], "     Compatible formats: ")
        donly == ListedItems(out[n - 1], "     Discord-only: ")
        gonly == ListedItems(out[n], "     Gemini-only: ")
    IN  /\ Prefix(out[n - 2], 25) = "     Compatible formats: "
        /\ Prefix(out[n - 1], 19) = "     Discord-only: "
        /\ Prefix(out[n], 18) = "     Gemini-only: "
        /\ PairwiseDistinct(compatible \o donly \o gonly)
        /\ Listed(compatible) \cup Listed(donly) \cup Listed(gonly)
             = DiscordFormats \cup GeminiFormats
        /\ Listed(compatible) = DiscordFormats \cap GeminiFormats
        /\ Listed(donly) = DiscordFormats \ GeminiFormats
        /\ Listed(gonly) = GeminiFormats \ DiscordFormats

\* the three lines are printed: six compatible formats in sorted order, GIF
\* and MOV for Discord alone, and three formats for Gemini alone
C28_Witness ==
  /\ script = "report" /\ pc = "section5"
  /\ out[Len(out) - 2] = "     Compatible formats: JPEG, MP3, MP4, PDF, PNG, WAV"
  /\ out[Len(out) - 1] = "     Discord-only: MOV, GIF"
  /\ out[Len(out)] = "     Gemini-only: HEIF, WEBP, HEIC"

\* C29: two runs of archive/script_1 (2).py print the same text: the order
\* of the items on the 'Discord-only' and 'Gemini-only' lines, which are
\* built from sets, is fixed by the program.
C29_SameOutput ==
  (prev.script = "report" /\ prev.err = "none" /\ script = "report" /\ pc = "done")
    => out = prev.out

(***************************************************************************)
(* Claims about the confirmation lines of the CSV scripts.                 *)
(***************************************************************************)
\* the confirmation lines and the file each of them names
Confirmations ==
  { [line |-> "\nData saved to: gemini_api_free_tier_comparison.csv",
     file |-> "gemini_api_free_tier_comparison.csv"],
    [line |-> "\n\nDetailed feature customization data saved to 'discord_bot_feature_customization.csv'",
     file |-> "discord_bot_feature_customization.csv"],
    [line |-> "\n\nUser demographics data saved to 'discord_user_group_demographics.csv'",
     file |-> "discord_user_group_demographics.csv"],
    [line |-> "\nFile 'mcp_servers_integration_guide.csv' created with detailed server information.",
     file |-> "mcp_servers_integration_guide.csv"] }

\* the places of the printed text o of script s that hold one line (the
\* ninth entry of the MCP report is the set of its category lines)
TextLines(s, o) == IF s = "mcp" THEN (1..Len(o)) \ {9} ELSE 1..Len(o)

\* C30: in the CSV scripts a confirmation line is printed only after the
\* to_csv call for the file it names has returned, and a step that leaves
\* the run with a to_csv call that raised prints nothing: no confirmation
\* for that file and no later output.
C30_ConfirmationAfterWrite ==
  [][ /\ \A c \in Confirmations :
           (\E k \in TextLines(script', out') : out'[k] = c.line)
             => c.file \in Written(files')
      /\ err' = "OSError" => (pc' = "failed" /\ out' = out) ]_vars

\* the first file of archive/script (3).py was written and confirmed, the
\* to_csv call for the second raised, and the output ends with the summary
\* table printed before that call
C30_Witness ==
  /\ script = "features" /\ pc = "failed" /\ err = "OSError"
  /\ files = <<"discord_bot_feature_customization.csv">>
  /\ InOut("\n\nDetailed feature customization data saved to 'discord_bot_feature_customization.csv'")
  /\ ~InOut("\n\nUser demographics data saved to 'discord_user_group_demographics.csv'")
  /\ out[Len(out)] = ToStringFrame(df2, {}, 0)

(***************************************************************************)
(* The specification.                                                      *)
(***************************************************************************)
\* the state in which a run starts
RunInit ==
  /\ err = "none"
  /\ i = 0 /\ j = 0
  /\ labels = <<>> /\ sources = <<>> /\ targets = <<>> /\ values = <<>>
  /\ node_colors = <<>>
  /\ chart_data = <<>>
  /\ colors = <<>>
  /\ all_servers = <<>>
  /\ out = <<>>
  /\ df = NoFrame
  /\ cuts = <<>>
  /\ fig = NoFig
  /\ rendered = <<>>
  /\ files = <<>>
  /\ csv = <<>>
  /\ df2 = NoFrame
  /\ \/ SankeyInit
     \/ GroupsInit
     \/ McpChartInit
     \/ RpmInit
     \/ TpmInit
     \/ McpInit
     \/ ReportInit
     \/ LimitsInit
     \/ FeaturesInit
     \/ CapsInit
     \/ RpdInit
     \/ ComparisonInit
     \/ Report2Init
  /\ lit = data

Init == RunInit /\ prev = NoRun

\* the scripts of the repository
Scripts ==
  {"sankey", "groups", "mcpchart", "rpm", "tpm", "mcp", "report", "limits",
   "features", "caps", "rpd", "comparison", "report2"}

\* the first statement of a script
StartPc(s) ==
  CASE s = "sankey"     -> "input_labels"
    [] s = "groups"     -> "process"
    [] s = "mcp"        -> "flatten"
    [] s = "report"     -> "title"
    [] s = "caps"       -> "modalities"
    [] s = "rpd"        -> "trace"
    [] s = "comparison" -> "figure"
    [] s = "report2"    -> "compile"
    [] OTHER            -> "dataframe"

\* the dataset literal of a script, as the source writes it
Literal(s) ==
  CASE s = "sankey"     -> SankeyData
    [] s = "groups"     -> GroupsData
    [] s = "mcpchart"   -> McpChartData
    [] s = "rpm"        -> RpmData
    [] s = "tpm"        -> TpmData
    [] s = "mcp"        -> McpServersData
    [] s = "report"     -> [gemini_capabilities |-> GeminiCapabilities,
                            discord_integration |-> DiscordIntegration,
                            use_cases |-> UseCases]
    [] s = "limits"     -> [data |-> LimitsData, features |-> LimitsFeatures]
    [] s = "features"   -> [feature_data |-> FeatureData, data |-> FeaturesData,
                            summary_stats |-> SummaryStats]
    [] s = "caps"       -> [capabilities |-> CapsData]
    [] s = "rpd"        -> [models |-> RpdModels, rpd_values |-> RpdValues]
    [] s = "comparison" -> [user_groups |-> UserGroups,
                            categories |-> Categories,
                            data_matrix |-> DataMatrix]
    [] s = "report2"    -> <<>>

\* one more script is started in the same working directory once the run
\* has ended: its files and what it printed stay, and the new run starts
\* from its own literals (the scripts read no file and share no state)
RunAgain ==
  /\ pc \in {"done", "failed"}
  /\ prev = NoRun
  /\ AsWritten
  /\ prev' = [script |-> script, out |-> out, files |-> files, err |-> err]
  /\ \E s \in Scripts :
       /\ script' = s
       /\ pc' = StartPc(s)
       /\ data' = Literal(s)
       /\ lit' = Literal(s)
       /\ input_types' = IF s = "sankey" THEN InputTypes ELSE <<>>
  /\ err' = "none"
  /\ i' = 0 /\ j' = 0
  /\ labels' = <<>> /\ sources' = <<>> /\ targets' = <<>> /\ values' = <<>>
  /\ node_colors' = <<>>
  /\ chart_data' = <<>>
  /\ colors' = <<>>
  /\ all_servers' = <<>>
  /\ out' = <<>>
  /\ df' = NoFrame
  /\ cuts' = <<>>
  /\ fig' = NoFig
  /\ rendered' = <<>>
  /\ files' = <<>>
  /\ csv' = <<>>
  /\ df2' = NoFrame
  /\ RunInit'
  /\ AsWritten'

Next ==
  \/ SankeyInputLabels
  \/ SankeyProcessLabels
  \/ SankeyOutputLabels
  \/ SankeyConnections
  \/ SankeyNodeColors
  \/ SankeyFigure
  \/ SankeyLayout
  \/ SankeyWrite
  \/ GroupsProcess
  \/ GroupsDataFrame
  \/ GroupsAddTrace
  \/ GroupsLayout
  \/ GroupsWrite
  \/ McpChartDataFrame
  \/ McpChartStars
  \/ McpChartServerShort
  \/ McpChartTextShort
  \/ McpChartComplexity
  \/ McpChartScatter
  \/ McpChartLayout
  \/ McpChartWrite
  \/ RpmDataFrame
  \/ RpmShortModel
  \/ RpmSort
  \/ RpmColors
  \/ RpmAddBar
  \/ RpmAddLegend
  \/ RpmLayout
  \/ RpmWrite
  \/ TpmDataFrame
  \/ TpmAddTrace
  \/ TpmLayout
  \/ TpmWrite
  \/ McpFlatten
  \/ McpDataFrame
  \/ McpToCsv
  \/ McpPrintTotal
  \/ McpPrintPriorities
  \/ McpPrintCategories
  \/ ReportTitle
  \/ ReportSection1
  \/ ReportSection2
  \/ ReportSection3
  \/ ReportSection4
  \/ ReportSection5
  \/ ReportSection6
  \/ ReportSection7
  \/ LimitsDataFrame
  \/ LimitsPrintTable
  \/ LimitsToCsv
  \/ LimitsPrintSaved
  \/ LimitsFeaturesFrame
  \/ LimitsPrintFeatures
  \/ FeaturesDataFrame
  \/ FeaturesPrintTable
  \/ FeaturesToCsv
  \/ FeaturesPrintSaved
  \/ FeaturesSummaryFrame
  \/ FeaturesPrintSummary
  \/ FeaturesSummaryToCsv
  \/ FeaturesPrintSummarySaved
  \/ CapsAddTrace
  \/ CapsLayout
  \/ CapsWrite
  \/ RpdAddTrace
  \/ RpdLayout
  \/ RpdWrite
  \/ ComparisonFigure
  \/ ComparisonLayout
  \/ ComparisonWrite
  \/ Report2Compile
  \/ RunAgain

Spec == Init /\ [][Next]_vars

=============================================================================
